---- MODULE Spec2Model ----
(***************************************************************************)
(* pgnodemx: cgroup mode detection (set_cgmode), controller path           *)
(* resolution (set_cgpath) and lookup (get_cgpath_value) of src/cgroup.c,  *)
(* and the older monolithic set_cgmode of src/pgnodemx.c.                   *)
(*                                                                         *)
(* A C string is a sequence of tokens: a punctuation character the code    *)
(* scans for (":", ",", "=", "/", " ", "\n") or a word that the code never *)
(* looks inside.                                                            *)
(***************************************************************************)
EXTENDS Integers, Sequences, FiniteSets, TLC

VARIABLES
    cgroup_enabled, \* GUC pgnodemx.cgroup_enabled
    containerized,  \* GUC pgnodemx.containerized
    source,         \* where the value of pgnodemx.containerized came from
    cgmode,         \* module global: "NULL" or one of the four mode names
    cgpath,         \* module global: the kvpairs table
    procfile,       \* file system: /proc/self/cgroup
    dirs,           \* file system: the directories that exist (access F_OK)
    ctlfile,        \* file system: cgroup.controllers
    inited,         \* src/pgnodemx.c: the static flag of _PG_init
    last            \* the last call: its name, inputs, error and result

vars == <<cgroup_enabled, containerized, source, cgmode, cgpath, procfile, dirs,
          ctlfile, inited, last>>

----------------------------------------------------------------------------
(* Bounds of the model *)

\* the largest number of directories present under the cgroup root
MaxDirs == 2

----------------------------------------------------------------------------
(* Program constants *)

PROC_CGROUP_FILE == <<"/proc/self/cgroup">>
CGROUP_V1 == "legacy"
CGROUP_V2 == "unified"
CGROUP_HYBRID == "hybrid"
CGROUP_DISABLED == "disabled"
DEFCONTROLLER == <<"memory">>
MAX_PERM_ARRLEN == 10
CONTROLLER_NOT_FOUND == <<"Controller_Not_Found">>
DEFAULT_CONTROLLER_NOT_FOUND == <<"Default_Controller_Not_Found">>
DEFAULT_KEY == <<"cgroup">>
CGROUP2_SUPER_MAGIC == "cgroup2"
TMPFS_MAGIC == "tmpfs"
\* the GucSource of a setting: its boot value, or postgresql.conf
PGC_S_DEFAULT == "PGC_S_DEFAULT"
PGC_S_FILE == "PGC_S_FILE"
\* the GUC default of pgnodemx.cgrouproot
cgrouproot == <<"/sys/fs/cgroup">>

\* an uninitialised char * slot of a repalloc'ed array
GARBAGE == <<"<uninitialized>">>

----------------------------------------------------------------------------
(* C string helpers *)

\* strchr: the 1-based position of the first c in s, 0 for NULL
RECURSIVE strchr_from(_, _, _)
strchr_from(s, c, i) ==
    IF i > Len(s) THEN 0
    ELSE IF s[i] = c THEN i
    ELSE strchr_from(s, c, i + 1)

strchr(s, c) == strchr_from(s, c, 1)

\* the string from position i on (a char * into s)
Tail_from(s, i) == IF i > Len(s) THEN <<>> ELSE SubSeq(s, i, Len(s))

\* strtok / strtok_r: the non-empty segments of s between delimiters c
RECURSIVE strtok_all(_, _, _, _)
strtok_all(s, c, cur, acc) ==
    IF s = <<>> THEN (IF cur = <<>> THEN acc ELSE Append(acc, cur))
    ELSE IF Head(s) = c
         THEN strtok_all(Tail(s), c, <<>>, IF cur = <<>> THEN acc ELSE Append(acc, cur))
         ELSE strtok_all(Tail(s), c, Append(cur, Head(s)), acc)

strtok(s, c) == strtok_all(s, c, <<>>, <<>>)

\* tolower on a word; the words of the model with an upper-case spelling
Lower(w) == IF w = "MEMORY" THEN "memory" ELSE w

LowerStr(s) == [i \in 1..Len(s) |-> Lower(s[i])]

strcasecmp_eq(a, b) == LowerStr(a) = LowerStr(b)

\* appendStringInfo(str, "%s/%s", a, b)
Slash(a, b) == a \o <<"/">> \o b

RECURSIVE JoinWith(_, _)
JoinWith(toks, c) ==
    IF toks = <<>> THEN <<>>
    ELSE IF Len(toks) = 1 THEN toks[1]
    ELSE toks[1] \o <<c>> \o JoinWith(Tail(toks), c)

----------------------------------------------------------------------------
(* The file system the calls read *)

Line(id, controller, rel) == <<id, ":">> \o controller \o <<":", "/">> \o rel

L_mem    == Line("2", <<"memory">>, <<"foo">>)
L_cc     == Line("3", <<"cpu", ",", "cpuacct">>, <<"foo">>)
L_sysd   == Line("1", <<"name", "=", "systemd">>, <<"foo">>)
L_memco  == Line("5", <<"memory", ",", "hugetlb">>, <<"foo">>)
L_tri    == Line("4", <<"net_cls", ",", "net_prio", ",", "blkio">>, <<"foo">>)
L_MEM    == Line("6", <<"name", "=", "MEMORY">>, <<"foo">>)
L_blkmem == Line("9", <<"blkio", ",", "memory">>, <<"foo">>)
ElevenToks == <<"c1", "c2", "c3", "c4", "c5", "c6", "c7", "c8", "c9", "c10", "c11">>
L_eleven == Line("7", JoinWith([i \in 1..11 |-> <<ElevenToks[i]>>], ","), <<"foo">>)
L_nocolon  == <<"garbage">>
L_onecolon == <<"8", ":", "pids">>
L_v2     == <<"0", ":", ":", "/", "foo">>

\* the raw text of a file: its lines, each ended by a newline
RECURSIVE Raw(_)
Raw(lines) == IF lines = <<>> THEN <<>> ELSE Head(lines) \o <<"\n">> \o Raw(Tail(lines))

File(lines) == [ok |-> TRUE, data |-> Raw(lines)]
Unreadable == [ok |-> FALSE, data |-> <<>>]

LegacyProcFiles ==
    { File(<<L_mem, L_cc>>), File(<<L_cc, L_sysd>>), File(<<L_memco, L_cc>>),
      File(<<L_tri, L_mem>>), File(<<L_eleven, L_mem>>), File(<<L_MEM, L_cc>>),
      File(<<L_sysd, L_mem, L_cc>>), File(<<L_blkmem, L_cc>>),
      File(<<L_mem, L_nocolon>>), File(<<L_onecolon, L_mem>>),
      File(<<L_mem, L_memco>>),
      File(<<>>), Unreadable }

UnifiedProcFiles == { File(<<L_v2>>) }

P(controller, rel) == Slash(Slash(cgrouproot, controller), rel)

\* the directories that may exist under the cgroup root of a v1 host
LegacyDirUniverse ==
    { P(<<"memory">>, <<"foo">>), Slash(cgrouproot, <<"memory">>),
      P(<<"cpu", ",", "cpuacct">>, <<"foo">>), P(<<"cpuacct", ",", "cpu">>, <<"foo">>),
      Slash(cgrouproot, <<"cpuacct", ",", "cpu">>),
      P(<<"memory", ",", "hugetlb">>, <<"foo">>),
      P(<<"blkio", ",", "net_cls", ",", "net_prio">>, <<"foo">>),
      P(<<"net_cls", ",", "blkio", ",", "net_prio">>, <<"foo">>),
      P(JoinWith([i \in 1..11 |-> <<ElevenToks[12 - i]>>], ","), <<"foo">>) }

UnifiedDirUniverse == { Slash(cgrouproot, <<"foo">>) }

\* cgroup.controllers: the directory that holds it and its text
CtlFiles ==
    { [dir |-> d, file |-> f] :
        d \in {cgrouproot, Slash(cgrouproot, <<"foo">>)},
        f \in { File(<<<<"cpu", " ", "memory">>>>), File(<<<<"cpu", " ", "io">>>>),
                File(<<<<"cpu", " ", "cpu">>>>),
                File(<<>>), File(<< <<>> >>) } }
NoCtlFile == [dir |-> <<>>, file |-> Unreadable]

SmallSubsets(S) == { d \in SUBSET S : Cardinality(d) <= MaxDirs }

\* access(path, F_OK) == 0
access_ok(path) == path \in dirs

\* read_vfs: the text of the file, or the error it raises
read_vfs(ftr) ==
    IF ftr = PROC_CGROUP_FILE THEN procfile
    ELSE IF ftr = Slash(ctlfile.dir, <<"cgroup.controllers">>) THEN ctlfile.file
    ELSE Unreadable

\* read_nlsv: the lines of the file
read_nlsv(ftr) ==
    LET f == read_vfs(ftr)
    IN  IF f.ok THEN [err |-> "none", lines |-> strtok(f.data, "\n")]
        ELSE [err |-> "could not open file", lines |-> <<>>]

\* read_one_nlsv: the single line of the file
read_one_nlsv(ftr) ==
    LET f == read_nlsv(ftr)
    IN  IF f.err # "none" THEN [err |-> f.err, line |-> <<>>]
        ELSE IF Len(f.lines) # 1 THEN [err |-> "expected 1 line", line |-> <<>>]
        ELSE [err |-> "none", line |-> f.lines[1]]

----------------------------------------------------------------------------
(* State after the library is loaded, before _PG_init has detected anything *)

NoTable == [alloc |-> FALSE, nkvp |-> 0, keys |-> <<>>, values |-> <<>>]
NoProbe == [root |-> "-", unified |-> "-"]
NoCall  == [op |-> "init", err |-> "none", key |-> <<>>, ret |-> <<>>,
            probe |-> NoProbe, again |-> FALSE]

Init ==
    /\ cgroup_enabled \in BOOLEAN
    /\ source \in {PGC_S_DEFAULT, PGC_S_FILE}
    /\ containerized \in (IF source = PGC_S_FILE THEN BOOLEAN ELSE {FALSE})
    /\ cgmode = "NULL"
    /\ cgpath = NoTable
    /\ \/ /\ procfile \in LegacyProcFiles
          /\ dirs \in SmallSubsets(LegacyDirUniverse)
          /\ ctlfile = NoCtlFile
       \/ /\ procfile \in UnifiedProcFiles
          /\ dirs \in SmallSubsets(UnifiedDirUniverse)
          /\ ctlfile \in CtlFiles \cup {NoCtlFile}
    /\ inited = FALSE
    /\ last = NoCall

Frame == UNCHANGED <<cgroup_enabled, containerized, source, procfile, dirs, ctlfile,
                     inited>>

----------------------------------------------------------------------------
(* set_cgmode, src/cgroup.c *)

\* what statfs(cgrouproot) can report: an error, or the f_type of the mount
RootProbes == {"ENOENT", CGROUP2_SUPER_MAGIC, TMPFS_MAGIC, "ext4"}
\* what statfs(cgrouproot/unified) can report
UnifiedProbes == {"ENOENT", CGROUP2_SUPER_MAGIC, "ext4"}

\* set_cgmode taking every tmpfs root for a v1 host
cgmode_outcome_tmpfs_legacy(enabled, root, unified) ==
    IF ~enabled THEN [mode |-> CGROUP_DISABLED, err |-> "none", warn |-> FALSE]
    ELSE IF root = "ENOENT" THEN [mode |-> CGROUP_DISABLED, err |-> "none", warn |-> TRUE]
    ELSE IF root = CGROUP2_SUPER_MAGIC THEN
        LET f == read_nlsv(PROC_CGROUP_FILE)
        IN  IF f.err # "none" THEN [mode |-> "keep", err |-> f.err, warn |-> FALSE]
            ELSE IF Len(f.lines) # 1
                 THEN [mode |-> CGROUP_HYBRID, err |-> "none", warn |-> FALSE]
                 ELSE [mode |-> CGROUP_V2, err |-> "none", warn |-> FALSE]
    ELSE IF root = TMPFS_MAGIC THEN [mode |-> CGROUP_V1, err |-> "none", warn |-> FALSE]
    ELSE [mode |-> CGROUP_DISABLED, err |-> "none", warn |-> TRUE]

\* set_cgmode taking every cgroup2 root for a unified host
cgmode_outcome_no_linecount(enabled, root, unified) ==
    IF ~enabled THEN [mode |-> CGROUP_DISABLED, err |-> "none", warn |-> FALSE]
    ELSE IF root = "ENOENT" THEN [mode |-> CGROUP_DISABLED, err |-> "none", warn |-> TRUE]
    ELSE IF root = CGROUP2_SUPER_MAGIC THEN [mode |-> CGROUP_V2, err |-> "none", warn |-> FALSE]
    ELSE IF root = TMPFS_MAGIC THEN
        IF unified = CGROUP2_SUPER_MAGIC
        THEN [mode |-> CGROUP_HYBRID, err |-> "none", warn |-> FALSE]
        ELSE [mode |-> CGROUP_V1, err |-> "none", warn |-> FALSE]
    ELSE [mode |-> CGROUP_DISABLED, err |-> "none", warn |-> TRUE]

\* the outcome of set_cgmode on the probes: the mode it stores (or "keep"
\* when it raises before storing one), the error raised and the warning logged
cgmode_outcome(enabled, root, unified) ==
    IF ~enabled THEN [mode |-> CGROUP_DISABLED, err |-> "none", warn |-> FALSE]
    ELSE IF root = "ENOENT" THEN [mode |-> CGROUP_DISABLED, err |-> "none", warn |-> TRUE]
    ELSE IF root = CGROUP2_SUPER_MAGIC THEN
        LET f == read_nlsv(PROC_CGROUP_FILE)
        IN  IF f.err # "none" THEN [mode |-> "keep", err |-> f.err, warn |-> FALSE]
            ELSE IF Len(f.lines) # 1
                 THEN [mode |-> CGROUP_HYBRID, err |-> "none", warn |-> FALSE]
                 ELSE [mode |-> CGROUP_V2, err |-> "none", warn |-> FALSE]
    ELSE IF root = TMPFS_MAGIC THEN
        IF unified = CGROUP2_SUPER_MAGIC
        THEN [mode |-> CGROUP_HYBRID, err |-> "none", warn |-> FALSE]
        ELSE [mode |-> CGROUP_V1, err |-> "none", warn |-> FALSE]
    ELSE [mode |-> CGROUP_DISABLED, err |-> "none", warn |-> TRUE]

\* the statfs calls set_cgmode makes: none when the subsystem is switched off,
\* the second one only under a tmpfs root
Probes ==
    IF ~cgroup_enabled THEN {NoProbe}
    ELSE { [root |-> r, unified |-> "-"] : r \in RootProbes \ {TMPFS_MAGIC} }
         \cup { [root |-> TMPFS_MAGIC, unified |-> u] : u \in UnifiedProbes }

set_cgmode ==
    \E pr \in Probes :
        LET o == cgmode_outcome(cgroup_enabled, pr.root, pr.unified)
        IN  /\ cgmode' = IF o.mode = "keep" THEN cgmode ELSE o.mode
            /\ last' = [op |-> "set_cgmode", err |-> o.err, key |-> <<>>,
                        ret |-> IF o.warn THEN <<"WARNING">> ELSE <<>>,
                        probe |-> pr, again |-> FALSE]
            /\ UNCHANGED cgpath
            /\ Frame

----------------------------------------------------------------------------
(* set_cgmode, src/pgnodemx.c: the static copy _PG_init calls *)

\* the outcome of pgnodemx.c's set_cgmode on the probes
pgnodemx_cgmode_outcome(root, unified) ==
    IF root = "ENOENT" THEN [mode |-> "keep", err |-> "statfs error on cgroup mount"]
    ELSE IF root = CGROUP2_SUPER_MAGIC THEN [mode |-> CGROUP_V2, err |-> "none"]
    ELSE IF root = TMPFS_MAGIC THEN
        IF unified = CGROUP2_SUPER_MAGIC
        THEN [mode |-> "keep", err |-> "unsupported cgroup configuration"]
        ELSE [mode |-> CGROUP_V1, err |-> "none"]
    ELSE [mode |-> "keep", err |-> "unexpected mount type on cgroup root"]

pgnodemx_Probes ==
    { [root |-> r, unified |-> "-"] : r \in RootProbes \ {TMPFS_MAGIC} }
    \cup { [root |-> TMPFS_MAGIC, unified |-> u] : u \in UnifiedProbes }

pgnodemx_set_cgmode ==
    \E pr \in pgnodemx_Probes :
        LET o == pgnodemx_cgmode_outcome(pr.root, pr.unified)
        IN  /\ cgmode' = IF o.mode = "keep" THEN cgmode ELSE o.mode
            /\ last' = [op |-> "pgnodemx_set_cgmode", err |-> o.err, key |-> <<>>,
                        ret |-> <<>>, probe |-> pr, again |-> FALSE]
            /\ UNCHANGED cgpath
            /\ Frame

----------------------------------------------------------------------------
(* set_containerized, src/cgroup.c *)

\* the path the v1 branch tests: built from the first line whose controller
\* list starts with "memory", empty when there is none; "crash" stands for
\* the strncmp on the NULL that strchr returns for a line without colon
RECURSIVE memory_line_path(_, _)
memory_line_path(lines, i) ==
    IF i > Len(lines) THEN [err |-> "none", str |-> <<>>]
    ELSE LET p == strchr(lines[i], ":")
             pstr == Tail_from(lines[i], p + 1)
             q == strchr(pstr, ":")
         IN  IF p = 0 THEN [err |-> "crash", str |-> <<>>]
             ELSE IF Len(pstr) >= 1 /\ <<pstr[1]>> = DEFCONTROLLER
             THEN [err |-> "none",
                   str |-> Slash(Slash(cgrouproot, DEFCONTROLLER),
                                 IF q = 0 THEN <<"(null)">> ELSE Tail_from(pstr, q + 2))]
             ELSE memory_line_path(lines, i + 1)

\* set_containerized ignoring where the setting came from
containerized_outcome_detect_always ==
    IF cgmode = CGROUP_V1 THEN
        LET f == read_nlsv(PROC_CGROUP_FILE)
            m == memory_line_path(f.lines, 1)
        IN  IF f.err # "none" THEN [err |-> f.err, value |-> containerized]
            ELSE IF Len(f.lines) = 0
                 THEN [err |-> "no cgroup paths found", value |-> containerized]
            ELSE IF m.err # "none" THEN [err |-> m.err, value |-> containerized]
            ELSE [err |-> "none", value |-> ~access_ok(m.str)]
    ELSE IF cgmode = CGROUP_V2 THEN
        LET f == read_one_nlsv(PROC_CGROUP_FILE)
        IN  IF f.err # "none" THEN [err |-> f.err, value |-> containerized]
            ELSE [err |-> "none",
                  value |-> ~access_ok(Slash(cgrouproot, Tail_from(f.line, 5)))]
    ELSE [err |-> "none", value |-> FALSE]

\* set_containerized leaving the flag alone in hybrid mode
containerized_outcome_hybrid_keeps ==
    IF source = PGC_S_FILE THEN [err |-> "none", value |-> containerized]
    ELSE IF cgmode = CGROUP_V1 THEN
        LET f == read_nlsv(PROC_CGROUP_FILE)
            m == memory_line_path(f.lines, 1)
        IN  IF f.err # "none" THEN [err |-> f.err, value |-> containerized]
            ELSE IF Len(f.lines) = 0
                 THEN [err |-> "no cgroup paths found", value |-> containerized]
            ELSE IF m.err # "none" THEN [err |-> m.err, value |-> containerized]
            ELSE [err |-> "none", value |-> ~access_ok(m.str)]
    ELSE IF cgmode = CGROUP_V2 THEN
        LET f == read_one_nlsv(PROC_CGROUP_FILE)
        IN  IF f.err # "none" THEN [err |-> f.err, value |-> containerized]
            ELSE [err |-> "none",
                  value |-> ~access_ok(Slash(cgrouproot, Tail_from(f.line, 5)))]
    ELSE [err |-> "none", value |-> containerized]

\* the outcome of set_containerized: the error raised (or "none") and the
\* value containerized has afterwards
containerized_outcome ==
    IF source = PGC_S_FILE THEN [err |-> "none", value |-> containerized]
    ELSE IF cgmode = CGROUP_V1 THEN
        LET f == read_nlsv(PROC_CGROUP_FILE)
            m == memory_line_path(f.lines, 1)
        IN  IF f.err # "none" THEN [err |-> f.err, value |-> containerized]
            ELSE IF Len(f.lines) = 0
                 THEN [err |-> "no cgroup paths found", value |-> containerized]
            ELSE IF m.err # "none" THEN [err |-> m.err, value |-> containerized]
            ELSE [err |-> "none", value |-> ~access_ok(m.str)]
    ELSE IF cgmode = CGROUP_V2 THEN
        LET f == read_one_nlsv(PROC_CGROUP_FILE)
        IN  IF f.err # "none" THEN [err |-> f.err, value |-> containerized]
            ELSE [err |-> "none",
                  value |-> ~access_ok(Slash(cgrouproot, Tail_from(f.line, 5)))]
    ELSE [err |-> "none", value |-> FALSE]

set_containerized ==
    /\ source = PGC_S_FILE \/ cgmode # "NULL"
    /\ LET o == containerized_outcome
       IN  /\ containerized' = o.value
           /\ last' = [op |-> "set_containerized", err |-> o.err, key |-> <<>>,
                       ret |-> <<>>, probe |-> NoProbe, again |-> FALSE]
    /\ UNCHANGED <<cgroup_enabled, source, cgmode, cgpath, procfile, dirs, ctlfile,
                   inited>>

----------------------------------------------------------------------------
(* Permutations of a controller list, src/cgroup.c *)

\* a swap that loses arr[a]
swap_without_temp(arr, a, b) == [arr EXCEPT ![a] = arr[b]]

\* swap: the array with the elements at a and b exchanged
swap(arr, a, b) == [arr EXCEPT ![a] = arr[b], ![b] = arr[a]]

\* heap_permute: the array as the call leaves it and the permutations it
\* attached, in order; positions are 1-based here, so level - 1 of the code
\* is level and i of the code is i + 1
\* The for loop of heap_permute from i on; st is the array and the
\* permutations attached so far. (Every intermediate result is bound by a
\* singleton set, which makes TLC compute it once.)
RECURSIVE heap_permute(_, _), heap_permute_loop(_, _, _)
heap_permute_loop(st, level, i) ==
    IF ~(i < level - 1) THEN st
    ELSE CHOOSE res \in
            { heap_permute_loop([arr |-> r.arr, out |-> st.out \o r.out], level, i + 1) :
                r \in { heap_permute(IF level % 2 = 0 THEN swap(st.arr, i + 1, level)
                                                      ELSE swap(st.arr, 1, level),
                                     level - 1) } } : TRUE

heap_permute(origarr, level) ==
    IF level = 1 THEN [arr |-> origarr, out |-> <<origarr>>]
    ELSE CHOOSE res \in
            { heap_permute_loop(first, level, 0) :
                first \in { heap_permute(origarr, level - 1) } } : TRUE

\* the segments of s between delimiters c, empty ones kept
RECURSIVE split_keep(_, _, _, _)
split_keep(s, c, cur, acc) ==
    IF s = <<>> THEN Append(acc, cur)
    ELSE IF Head(s) = c THEN split_keep(Tail(s), c, <<>>, Append(acc, cur))
    ELSE split_keep(Tail(s), c, Append(cur, Head(s)), acc)

\* SplitIdentifierString(rawstring, ',', &list): the identifiers, downcased;
\* the empty string is allowed and gives the empty list; ok is FALSE on an
\* empty identifier
SplitIdentifierString(rawstring) ==
    LET toks == split_keep(rawstring, ",", <<>>, <<>>)
    IN  IF rawstring = <<>> THEN [ok |-> TRUE, list |-> <<>>]
        ELSE [ok |-> \A i \in 1..Len(toks) : toks[i] # <<>>,
              list |-> [i \in 1..Len(toks) |-> LowerStr(toks[i])]]

\* fact: the number of permutations precalculated by the loop over cntr
RECURSIVE fact_loop(_, _, _)
fact_loop(fact, cntr, origarrsize) ==
    IF cntr <= origarrsize THEN fact_loop(fact * cntr, cntr + 1, origarrsize) ELSE fact

\* heap_permute on an array of no element: level is a size_t, so level - 1
\* wraps around at level 0, level 1 is met only after SIZE_MAX nested calls,
\* and the stack runs out first
heap_permute_overflows(origarrsize) == origarrsize = 0

\* the list parses to no element, which heap_permute does not survive
get_list_permutations_crashes(controller) ==
    LET sp == SplitIdentifierString(controller)
    IN  sp.ok /\ heap_permute_overflows(Len(sp.list))

\* get_list_permutations: the comma-joined orderings of the list, in the
\* order Heap's algorithm yields them; none (NULL, nrow = 0) when the list
\* does not parse or is longer than MAX_PERM_ARRLEN (and none for the list
\* of no element, for which the call never returns)
get_list_permutations(controller) ==
    LET sp == SplitIdentifierString(controller)
        origarrsize == Len(sp.list)
    IN  IF ~sp.ok THEN <<>>
        ELSE IF origarrsize > MAX_PERM_ARRLEN THEN <<>>
        ELSE IF heap_permute_overflows(origarrsize) THEN <<>>
        ELSE LET arrofpermarr == heap_permute([i \in 1..origarrsize |-> i], origarrsize).out
             IN  [k \in 1..Len(arrofpermarr) |->
                    JoinWith([j \in 1..origarrsize |-> sp.list[arrofpermarr[k][j]]], ",")]

----------------------------------------------------------------------------
(* Controller path resolution, src/cgroup.c *)

candidate_controller_path(controller, r) ==
    IF ~containerized THEN Slash(Slash(cgrouproot, controller), r)
    ELSE Slash(cgrouproot, controller)

\* the first of the candidate paths of perms, from position i on, that exists
RECURSIVE first_existing(_, _, _)
first_existing(perms, r, i) ==
    IF i > Len(perms) THEN CONTROLLER_NOT_FOUND
    ELSE LET str == candidate_controller_path(perms[i], r)
         IN  IF access_ok(str) THEN str ELSE first_existing(perms, r, i + 1)

\* check_and_fix_controller_path without the search through the orderings
check_and_fix_controller_path_asis(controller, r) ==
    LET str == candidate_controller_path(controller, r)
    IN  IF ~access_ok(str) THEN CONTROLLER_NOT_FOUND ELSE str

\* check_and_fix_controller_path taking a single controller's path unchecked
check_and_fix_controller_path_verbatim(controller, r) ==
    LET str == candidate_controller_path(controller, r)
    IN  IF strchr(controller, ",") = 0 THEN str
        ELSE IF access_ok(str) THEN str
        ELSE first_existing(get_list_permutations(controller), r, 1)

check_and_fix_controller_path(controller, r) ==
    LET str == candidate_controller_path(controller, r)
    IN  IF strchr(controller, ",") = 0
        THEN IF ~access_ok(str) THEN CONTROLLER_NOT_FOUND ELSE str
        ELSE IF access_ok(str) THEN str
        ELSE first_existing(get_list_permutations(controller), r, 1)

\* create_default_cgpath keying the default entry with the default controller
create_default_cgpath_as_memory(t, str, curlen) ==
    [alloc |-> TRUE, nkvp |-> curlen + 1,
     keys |-> SubSeq(t.keys, 1, curlen) \o <<DEFCONTROLLER>>,
     values |-> SubSeq(t.values, 1, curlen) \o
                <<IF str # <<>> THEN str ELSE DEFAULT_CONTROLLER_NOT_FOUND>>]

\* create_default_cgpath(str, curlen); str is <<>> for NULL
create_default_cgpath(t, str, curlen) ==
    [alloc |-> TRUE, nkvp |-> curlen + 1,
     keys |-> SubSeq(t.keys, 1, curlen) \o <<DEFAULT_KEY>>,
     values |-> SubSeq(t.values, 1, curlen) \o
                <<IF str # <<>> THEN str ELSE DEFAULT_CONTROLLER_NOT_FOUND>>]

\* init_or_reset_cgpath: the table allocated and emptied
EmptyTable == [alloc |-> TRUE, nkvp |-> 0, keys |-> <<>>, values |-> <<>>]

HasGarbage(t) == \E i \in 1..t.nkvp : t.keys[i] = GARBAGE \/ t.values[i] = GARBAGE

\* repalloc of the arrays to n slots: the new slots hold whatever was there
Grown(n) == [alloc |-> TRUE, nkvp |-> n,
             keys |-> [i \in 1..n |-> GARBAGE], values |-> [i \in 1..n |-> GARBAGE]]

\* one line of /proc/self/cgroup in the v1 loop: the error raised, or the
\* controller, its path and whether it is the default controller
legacy_line(line) ==
    LET p == strchr(line, ":")
        pstr == Tail_from(line, p + 1)
        r == strchr(pstr, ":")
        rstr == Tail_from(pstr, r + 2)
        len == r - 1
        whole == SubSeq(pstr, 1, len)
        q == strchr(whole, "=")
        controller == IF q # 0 THEN Tail_from(whole, q + 1) ELSE whole
    IN  IF p = 0 \/ r = 0
        THEN [err |-> "malformed cgroup path", key |-> <<>>, value |-> <<>>, isdef |-> FALSE]
        ELSE [err |-> "none", key |-> controller,
              value |-> check_and_fix_controller_path(controller, rstr),
              isdef |-> strcasecmp_eq(controller, DEFCONTROLLER)]

\* the v1 loop from line i on: t is the table so far, defpath <<>> for NULL
RECURSIVE legacy_loop(_, _, _, _)
legacy_loop(lines, i, t, defpath) ==
    IF i > Len(lines)
    THEN [err |-> "none", table |-> create_default_cgpath(t, defpath, Len(lines))]
    ELSE LET e == legacy_line(lines[i])
         IN  IF e.err # "none" THEN [err |-> e.err, table |-> t]
             ELSE legacy_loop(lines, i + 1,
                              [t EXCEPT !.keys[i] = e.key, !.values[i] = e.value],
                              IF e.isdef THEN e.value ELSE defpath)

\* parse_space_sep_val_file: the tokens of the single line of the file
parse_space_sep_val_file(ftr) ==
    LET f == read_one_nlsv(ftr)
    IN  IF f.err # "none" THEN [err |-> f.err, values |-> <<>>]
        ELSE [err |-> "none", values |-> strtok(f.line, " ")]

\* set_cgpath building a table of the default entry alone in an unsupported mode
set_cgpath_outcome_any_mode ==
    IF cgmode = CGROUP_V1 THEN
        LET f == read_nlsv(PROC_CGROUP_FILE)
        IN  IF f.err # "none" THEN [err |-> f.err, table |-> EmptyTable]
            ELSE IF Len(f.lines) = 0
                 THEN [err |-> "no cgroup paths found", table |-> EmptyTable]
                 ELSE legacy_loop(f.lines, 1, Grown(Len(f.lines)), <<>>)
    ELSE IF cgmode = CGROUP_V2 THEN
        LET f == read_one_nlsv(PROC_CGROUP_FILE)
            defpath == IF ~containerized THEN Slash(cgrouproot, Tail_from(f.line, 5))
                       ELSE cgrouproot
            c == parse_space_sep_val_file(Slash(defpath, <<"cgroup.controllers">>))
            nvals == Len(c.values)
        IN  IF f.err # "none" THEN [err |-> f.err, table |-> EmptyTable]
            ELSE IF c.err # "none" THEN [err |-> c.err, table |-> EmptyTable]
            ELSE [err |-> "none",
                  table |-> create_default_cgpath(
                              [alloc |-> TRUE, nkvp |-> nvals, keys |-> c.values,
                               values |-> [i \in 1..nvals |-> defpath]],
                              defpath, nvals)]
    ELSE [err |-> "none", table |-> create_default_cgpath(EmptyTable, <<>>, 0)]

\* set_cgpath after init_or_reset_cgpath: the error raised (or "none") and
\* the table the call leaves behind
set_cgpath_outcome ==
    IF cgmode = CGROUP_V1 THEN
        LET f == read_nlsv(PROC_CGROUP_FILE)
        IN  IF f.err # "none" THEN [err |-> f.err, table |-> EmptyTable]
            ELSE IF Len(f.lines) = 0
                 THEN [err |-> "no cgroup paths found", table |-> EmptyTable]
                 ELSE legacy_loop(f.lines, 1, Grown(Len(f.lines)), <<>>)
    ELSE IF cgmode = CGROUP_V2 THEN
        LET f == read_one_nlsv(PROC_CGROUP_FILE)
            defpath == IF ~containerized THEN Slash(cgrouproot, Tail_from(f.line, 5))
                       ELSE cgrouproot
            c == parse_space_sep_val_file(Slash(defpath, <<"cgroup.controllers">>))
            nvals == Len(c.values)
        IN  IF f.err # "none" THEN [err |-> f.err, table |-> EmptyTable]
            ELSE IF c.err # "none" THEN [err |-> c.err, table |-> EmptyTable]
            ELSE [err |-> "none",
                  table |-> create_default_cgpath(
                              [alloc |-> TRUE, nkvp |-> nvals, keys |-> c.values,
                               values |-> [i \in 1..nvals |-> defpath]],
                              defpath, nvals)]
    ELSE [err |-> "unsupported cgroup configuration", table |-> EmptyTable]

Restarted == /\ cgmode' = "NULL"
             /\ cgpath' = NoTable

\* set_cgpath without the reset of init_or_reset_cgpath: the entries of a pass
\* are added behind the ones the table already holds
set_cgpath_accumulating ==
    /\ cgmode # "NULL"
    /\ \/ /\ HasGarbage(cgpath)
          /\ Restarted
          /\ last' = [op |-> "set_cgpath", err |-> "crash", key |-> <<>>, ret |-> <<>>,
                      probe |-> NoProbe, again |-> last.op = "set_cgpath"]
       \/ LET o == set_cgpath_outcome
          IN  /\ cgpath' = [alloc |-> TRUE, nkvp |-> cgpath.nkvp + o.table.nkvp,
                            keys |-> cgpath.keys \o o.table.keys,
                            values |-> cgpath.values \o o.table.values]
              /\ last' = [op |-> "set_cgpath", err |-> o.err, key |-> <<>>, ret |-> <<>>,
                          probe |-> NoProbe, again |-> last.op = "set_cgpath"]
              /\ UNCHANGED cgmode
    /\ Frame

\* set_cgpath. The deep clear of init_or_reset_cgpath frees every slot of the
\* old table; freeing an uninitialised slot is undefined: the process dies
\* (and is started again) or the slot happened to hold NULL and the call goes on
set_cgpath ==
    /\ cgmode # "NULL"
    /\ \/ /\ HasGarbage(cgpath)
          /\ Restarted
          /\ last' = [op |-> "set_cgpath", err |-> "crash", key |-> <<>>, ret |-> <<>>,
                      probe |-> NoProbe, again |-> last.op = "set_cgpath"]
       \/ LET o == set_cgpath_outcome
          IN  /\ cgpath' = o.table
              /\ last' = [op |-> "set_cgpath", err |-> o.err, key |-> <<>>, ret |-> <<>>,
                          probe |-> NoProbe, again |-> last.op = "set_cgpath"]
              /\ UNCHANGED cgmode
    /\ Frame

----------------------------------------------------------------------------
(* Lookup, src/cgroup.c *)

\* key_matches comparing the stored key as a whole only
key_matches_exact(controller, key) == controller = key

\* key_matches answering to the whole comma-joined key as well
key_matches_joined(controller, key) ==
    \/ controller = key
    \/ \E k \in 1..Len(strtok(controller, ",")) : strtok(controller, ",")[k] = key

\* whether the stored key of an entry answers to key
key_matches(controller, key) ==
    IF strchr(controller, ",") = 0 THEN controller = key
    ELSE LET toks == strtok(controller, ",")
         IN  \E k \in 1..Len(toks) : toks[k] = key

\* get_cgpath_value from entry i on: the outcomes the call can have. Reading
\* an uninitialised slot is undefined: the process dies, or the slot looks
\* like the key, or it does not
RECURSIVE get_cgpath_value_from(_, _, _)
get_cgpath_value_from(t, key, i) ==
    IF i > t.nkvp THEN {[err |-> "failed to find controller", ret |-> <<>>]}
    ELSE IF t.keys[i] = GARBAGE
         THEN {[err |-> "crash", ret |-> <<>>], [err |-> "none", ret |-> t.values[i]]}
              \cup get_cgpath_value_from(t, key, i + 1)
    ELSE IF key_matches(t.keys[i], key) THEN {[err |-> "none", ret |-> t.values[i]]}
    ELSE get_cgpath_value_from(t, key, i + 1)

get_cgpath_value_of(t, key) == get_cgpath_value_from(t, key, 1)

\* the controller names callers ask for
LookupKeys ==
    { <<"memory">>, <<"cpu">>, <<"cpuacct">>, <<"cpu", ",", "cpuacct">>,
      <<"cgroup">>, <<"blkio">>, <<"io">> }

\* get_cgpath_value tokenising the stored key where it is, which cuts it at
\* its first comma
get_cgpath_value_in_place ==
    /\ cgpath.alloc
    /\ \E key \in LookupKeys : \E o \in get_cgpath_value_of(cgpath, key) :
          last' = [op |-> "get_cgpath_value", err |-> o.err, key |-> key, ret |-> o.ret,
                   probe |-> NoProbe, again |-> FALSE]
    /\ cgpath' = [cgpath EXCEPT !.keys =
                    [i \in 1..Len(cgpath.keys) |->
                        IF cgpath.keys[i] # GARBAGE /\ strchr(cgpath.keys[i], ",") # 0
                        THEN SubSeq(cgpath.keys[i], 1, strchr(cgpath.keys[i], ",") - 1)
                        ELSE cgpath.keys[i]]]
    /\ UNCHANGED cgmode
    /\ Frame

get_cgpath_value ==
    /\ cgpath.alloc
    /\ \E key \in LookupKeys : \E o \in get_cgpath_value_of(cgpath, key) :
          last' = [op |-> "get_cgpath_value", err |-> o.err, key |-> key, ret |-> o.ret,
                   probe |-> NoProbe, again |-> FALSE]
    /\ UNCHANGED <<cgmode, cgpath>>
    /\ Frame

----------------------------------------------------------------------------
(* _PG_init and the static copies of the three passes it calls, src/pgnodemx.c *)

\* the path the v1 branch of pgnodemx.c's set_containerized tests: the root
\* and the relative path of the first line whose controller list starts with
\* "memory", empty when there is none; "crash" stands for the read through
\* the pointer NULL + 1 that a missing colon leaves
RECURSIVE pgnodemx_memory_line_path(_, _)
pgnodemx_memory_line_path(lines, i) ==
    IF i > Len(lines) THEN [err |-> "none", str |-> <<>>]
    ELSE LET p == strchr(lines[i], ":")
             pstr == Tail_from(lines[i], p + 1)
             q == strchr(pstr, ":")
         IN  IF p = 0 THEN [err |-> "crash", str |-> <<>>]
             ELSE IF Len(pstr) >= 1 /\ <<pstr[1]>> = DEFCONTROLLER
             THEN IF q = 0 THEN [err |-> "crash", str |-> <<>>]
                  ELSE [err |-> "none", str |-> Slash(cgrouproot, Tail_from(pstr, q + 2))]
             ELSE pgnodemx_memory_line_path(lines, i + 1)

\* pgnodemx.c's set_containerized in mode `mode` with the flag at `flag`:
\* the error raised (or "none") and the value of the flag afterwards
pgnodemx_containerized_outcome(mode, flag) ==
    IF source = PGC_S_FILE THEN [err |-> "none", value |-> flag]
    ELSE IF mode = CGROUP_V1 THEN
        LET f == read_nlsv(PROC_CGROUP_FILE)
            m == pgnodemx_memory_line_path(f.lines, 1)
        IN  IF f.err # "none" THEN [err |-> f.err, value |-> flag]
            ELSE IF Len(f.lines) = 0
                 THEN [err |-> "no cgroup paths found", value |-> flag]
            ELSE IF m.err # "none" THEN [err |-> m.err, value |-> flag]
            ELSE [err |-> "none", value |-> ~access_ok(m.str)]
    ELSE IF mode = CGROUP_V2 THEN
        LET f == read_one_nlsv(PROC_CGROUP_FILE)
        IN  IF f.err # "none" THEN [err |-> f.err, value |-> flag]
            ELSE [err |-> "none",
                  value |-> ~access_ok(Slash(cgrouproot, Tail_from(f.line, 5)))]
    ELSE [err |-> "none", value |-> FALSE]

\* pgnodemx.c's create_default_cgpath: its key is "default"
pgnodemx_create_default_cgpath(t, str, curlen) ==
    [alloc |-> TRUE, nkvp |-> curlen + 1,
     keys |-> SubSeq(t.keys, 1, curlen) \o << <<"default">> >>,
     values |-> SubSeq(t.values, 1, curlen) \o <<str>>]

\* one line in the v1 loop of pgnodemx.c's set_cgpath. r is searched from p,
\* so both point at the first colon and len is -1 as a Size: pnstrdup copies
\* the line from the first colon to its end. "crash" stands for the strchr
\* on the NULL of a line without colon.
pgnodemx_legacy_line(line, flag) ==
    LET p == strchr(line, ":")
        rstr == Tail_from(line, p + 1)
        q == strchr(rstr, "=")
        controller == IF q # 0 THEN Tail_from(rstr, q + 1) ELSE rstr
    IN  IF p = 0
        THEN [err |-> "crash", key |-> <<>>, value |-> <<>>, isdef |-> FALSE]
        ELSE [err |-> "none", key |-> controller,
              value |-> IF ~flag THEN Slash(Slash(cgrouproot, controller), rstr)
                        ELSE Slash(cgrouproot, controller),
              isdef |-> controller = DEFCONTROLLER]

\* the v1 loop from line i on; defpath is GARBAGE while it is unassigned,
\* and the strdup of it then either dies (dies) or copies what it finds
RECURSIVE pgnodemx_legacy_loop(_, _, _, _, _, _)
pgnodemx_legacy_loop(lines, i, t, defpath, flag, dies) ==
    IF i > Len(lines)
    THEN IF defpath = GARBAGE /\ dies THEN [err |-> "crash", table |-> t]
         ELSE [err |-> "none",
               table |-> pgnodemx_create_default_cgpath(t, defpath, Len(lines))]
    ELSE LET e == pgnodemx_legacy_line(lines[i], flag)
         IN  IF e.err # "none" THEN [err |-> e.err, table |-> t]
             ELSE pgnodemx_legacy_loop(lines, i + 1,
                                       [t EXCEPT !.keys[i] = e.key, !.values[i] = e.value],
                                       IF e.isdef THEN e.value ELSE defpath, flag, dies)

\* pgnodemx.c's set_cgpath in mode `mode` with the flag at `flag`
pgnodemx_cgpath_outcome(mode, flag, dies) ==
    IF mode = CGROUP_V1 THEN
        LET f == read_nlsv(PROC_CGROUP_FILE)
        IN  IF f.err # "none" THEN [err |-> f.err, table |-> EmptyTable]
            ELSE IF Len(f.lines) = 0
                 THEN [err |-> "no cgroup paths found", table |-> EmptyTable]
                 ELSE pgnodemx_legacy_loop(f.lines, 1, Grown(Len(f.lines)), GARBAGE,
                                           flag, dies)
    ELSE IF mode = CGROUP_V2 THEN
        LET f == read_one_nlsv(PROC_CGROUP_FILE)
            defpath == IF ~flag THEN Slash(cgrouproot, Tail_from(f.line, 5))
                       ELSE cgrouproot
            c == parse_space_sep_val_file(Slash(defpath, <<"cgroup.controllers">>))
            nvals == Len(c.values)
        IN  IF f.err # "none" THEN [err |-> f.err, table |-> EmptyTable]
            ELSE IF c.err # "none" THEN [err |-> c.err, table |-> EmptyTable]
            ELSE [err |-> "none",
                  table |-> pgnodemx_create_default_cgpath(
                              [alloc |-> TRUE, nkvp |-> nvals, keys |-> c.values,
                               values |-> [i \in 1..nvals |-> defpath]],
                              defpath, nvals)]
    ELSE [err |-> "unsupported cgroup configuration", table |-> EmptyTable]

\* what a call of _PG_init leaves: the error that ended it (or "none") and
\* the flag, the mode, the containerized setting and the table afterwards.
\* An error raised while the library is preloaded ends the server start, so
\* nothing a failed pass had assigned is seen again.
PG_init_kept(err) ==
    [err |-> err, inited |-> inited, mode |-> cgmode, flag |-> containerized,
     table |-> cgpath]

\* _PG_init resolving the paths before it detects the container
PG_init_outcome_paths_first(preload, pr, dies) ==
    LET m == pgnodemx_cgmode_outcome(pr.root, pr.unified)
        t == pgnodemx_cgpath_outcome(m.mode, containerized, dies)
        c == pgnodemx_containerized_outcome(m.mode, containerized)
    IN  IF inited THEN PG_init_kept("none")
        ELSE IF ~preload THEN PG_init_kept("must be loaded via shared_preload_libraries")
        ELSE IF m.err # "none" THEN PG_init_kept(m.err)
        ELSE IF t.err # "none" THEN PG_init_kept(t.err)
        ELSE IF c.err # "none" THEN PG_init_kept(c.err)
        ELSE [err |-> "none", inited |-> TRUE, mode |-> m.mode, flag |-> c.value,
              table |-> t.table]

PG_init_outcome(preload, pr, dies) ==
    LET m == pgnodemx_cgmode_outcome(pr.root, pr.unified)
        c == pgnodemx_containerized_outcome(m.mode, containerized)
        t == pgnodemx_cgpath_outcome(m.mode, c.value, dies)
    IN  IF inited THEN PG_init_kept("none")
        ELSE IF ~preload THEN PG_init_kept("must be loaded via shared_preload_libraries")
        ELSE IF m.err # "none" THEN PG_init_kept(m.err)
        ELSE IF c.err # "none" THEN PG_init_kept(c.err)
        ELSE IF t.err # "none" THEN PG_init_kept(t.err)
        ELSE [err |-> "none", inited |-> TRUE, mode |-> m.mode, flag |-> c.value,
              table |-> t.table]

_PG_init ==
    /\ \E preload \in BOOLEAN : \E pr \in pgnodemx_Probes : \E dies \in BOOLEAN :
          LET o == PG_init_outcome(preload, pr, dies)
          IN  /\ inited' = o.inited
              /\ cgmode' = o.mode
              /\ containerized' = o.flag
              /\ cgpath' = o.table
              /\ last' = [op |-> "_PG_init", err |-> o.err, key |-> <<>>, ret |-> <<>>,
                          probe |-> pr, again |-> inited]
    /\ UNCHANGED <<cgroup_enabled, source, procfile, dirs, ctlfile>>

----------------------------------------------------------------------------
(* Text read character by character: a string is its sequence of characters *)

DecimalDigits == <<"0", "1", "2", "3", "4", "5", "6", "7", "8", "9">>
isdigit(c) == \E d \in 1..10 : DecimalDigits[d] = c
isspace(c) == c \in {" ", "\t", "\n"}
DigitValue(c) == (CHOOSE d \in 1..10 : DecimalDigits[d] = c) - 1

\* the digits of PG_INT64_MAX = 9223372036854775807 and of -PG_INT64_MIN
PG_INT64_MAX == <<9, 2, 2, 3, 3, 7, 2, 0, 3, 6, 8, 5, 4, 7, 7, 5, 8, 0, 7>>
PG_INT64_MIN_MAGNITUDE == <<9, 2, 2, 3, 3, 7, 2, 0, 3, 6, 8, 5, 4, 7, 7, 5, 8, 0, 8>>

\* a decimal magnitude without its leading zeros
RECURSIVE StripZeros(_)
StripZeros(ds) ==
    IF Len(ds) > 1 /\ ds[1] = 0 THEN StripZeros(Tail(ds)) ELSE ds

\* a <= b for magnitudes without leading zeros
MagnitudeLeq(a, b) ==
    \/ Len(a) < Len(b)
    \/ /\ Len(a) = Len(b)
       /\ \/ a = b
          \/ \E k \in 1..Len(a) :
                /\ a[k] < b[k]
                /\ \A j \in 1..(k - 1) : a[j] = b[j]

\* the position of the first character of s, from i on, that is not
\* whitespace (Len(s) + 1 when there is none)
RECURSIVE skip_spaces(_, _)
skip_spaces(s, i) ==
    IF i <= Len(s) /\ isspace(s[i]) THEN skip_spaces(s, i + 1) ELSE i

\* the position behind the run of digits of s that starts at i
RECURSIVE skip_digits(_, _)
skip_digits(s, i) ==
    IF i <= Len(s) /\ isdigit(s[i]) THEN skip_digits(s, i + 1) ELSE i

\* scanint8(str, true, &result): whether str is an int64 in decimal, and the
\* value as its sign and magnitude
scanint8(str) ==
    LET b == skip_spaces(str, 1)
        neg == b <= Len(str) /\ str[b] = "-"
        d == IF b <= Len(str) /\ str[b] \in {"-", "+"} THEN b + 1 ELSE b
        e == skip_digits(str, d)
        mag == StripZeros([k \in 1..(e - d) |-> DigitValue(str[d + k - 1])])
        fail == [ok |-> FALSE, neg |-> FALSE, digits |-> <<>>]
    IN  IF e = d THEN fail
        ELSE IF ~MagnitudeLeq(mag, IF neg THEN PG_INT64_MIN_MAGNITUDE ELSE PG_INT64_MAX)
        THEN fail
        ELSE IF skip_spaces(str, e) <= Len(str) THEN fail
        ELSE [ok |-> TRUE, neg |-> neg /\ mag # <<0>>, digits |-> mag]

\* the int64 of a sign and magnitude, for the values that fit a model integer
RECURSIVE MagnitudeValue(_)
MagnitudeValue(ds) ==
    IF ds = <<>> THEN 0 ELSE 10 * MagnitudeValue(SubSeq(ds, 1, Len(ds) - 1)) + ds[Len(ds)]
Int64Value(r) == IF r.neg THEN 0 - MagnitudeValue(r.digits) ELSE MagnitudeValue(r.digits)

\* a call of one of the parsing functions has not been made yet: the
\* function and the text it will be given
PureCall(fn, arg) ==
    [op |-> "init", err |-> "none", key |-> [fn |-> fn, arg |-> arg], ret |-> <<>>,
     probe |-> NoProbe, again |-> FALSE]
Pending(fn) == last.op = "init" /\ last.key.fn = fn
Returned(fn, arg, err, ret) ==
    last' = [op |-> fn, err |-> err, key |-> arg, ret |-> ret,
             probe |-> NoProbe, again |-> FALSE]
PureFrame == UNCHANGED <<cgroup_enabled, containerized, source, cgmode, cgpath,
                         procfile, dirs, ctlfile, inited>>

----------------------------------------------------------------------------
(* cgmembers, src/cgroup.c *)

\* the largest number of lines of cgroup.procs
MaxPids == 4

\* the lines cgroup.procs may hold
PidLines == { <<"9">>, <<"1", "0">>, <<"2", "0">>, <<"3", "0">> }
ProcsFiles ==
    UNION { [1..n -> PidLines] : n \in 0..MaxPids } \cup { << <<"1", "0">>, <<"x">> >> }

\* qsort comparison function for int64
int64_cmp(v1, v2) == IF v1 < v2 THEN 0 - 1 ELSE IF v1 > v2 THEN 1 ELSE 0

\* qsort(list, nlines, sizeof(int64), int64_cmp)
qsort(list) == SortSeq(list, LAMBDA a, b : int64_cmp(a, b) < 0)

\* qunique: the loop from element i on, j the last element kept
RECURSIVE qunique_loop(_, _, _)
qunique_loop(arr, i, j) ==
    IF i > Len(arr) THEN [list |-> arr, count |-> j]
    ELSE IF int64_cmp(arr[i], arr[j]) # 0
         THEN qunique_loop([arr EXCEPT ![j + 1] = arr[i]], i + 1, j + 1)
         ELSE qunique_loop(arr, i + 1, j)

\* qunique keeping every element
qunique_keep_all(arr) == [list |-> arr, count |-> Len(arr)]

\* qunique(list, nlines, sizeof(int64), int64_cmp): the array as it is left
\* and the number of elements kept at its front
qunique(arr) ==
    IF Len(arr) <= 1 THEN [list |-> arr, count |-> Len(arr)]
    ELSE qunique_loop(arr, 2, 1)

\* cgmembers on the lines read_nlsv returned for cgroup.procs
cgmembers_outcome(lines) ==
    LET scanned == [i \in 1..Len(lines) |-> scanint8(lines[i])]
    IN  IF Len(lines) = 0 THEN [err |-> "no cgroup procs found", ret |-> <<>>]
        ELSE IF \E i \in 1..Len(lines) : ~scanned[i].ok
             THEN [err |-> "contents not an integer", ret |-> <<>>]
        ELSE [err |-> "none",
              ret |-> qunique(qsort([i \in 1..Len(lines) |-> Int64Value(scanned[i])]))]

cgmembers ==
    /\ Pending("cgmembers")
    /\ LET o == cgmembers_outcome(last.key.arg)
       IN  Returned("cgmembers", last.key.arg, o.err, o.ret)
    /\ PureFrame

----------------------------------------------------------------------------
(* get_int64_from_file, src/parseutils.c, and getInt64FromFile, src/pgnodemx.c *)

UpperCase == <<"A", "B", "C", "D", "E", "F", "G", "H", "I", "J", "K", "L", "M", "N", "O", "P", "Q", "R", "S", "T", "U", "V", "W", "X", "Y", "Z">>
LowerCase == <<"a", "b", "c", "d", "e", "f", "g", "h", "i", "j", "k", "l", "m", "n", "o", "p", "q", "r", "s", "t", "u", "v", "w", "x", "y", "z">>
tolower(c) ==
    IF \E k \in 1..26 : UpperCase[k] = c
    THEN LowerCase[CHOOSE k \in 1..26 : UpperCase[k] = c]
    ELSE c

\* strcasecmp(a, b) == 0 on strings read character by character
strcasecmp_chars(a, b) ==
    /\ Len(a) = Len(b)
    /\ \A k \in 1..Len(a) : tolower(a[k]) = tolower(b[k])

\* the files an int64 is read from
Int64Files ==
    { File(<<<<"m", "a", "x">>>>),
      File(<<<<"M", "A", "X">>>>),
      File(<<<<"M", "a", "x">>>>),
      File(<<<<"0">>>>),
      File(<<<<"4", "2">>>>),
      File(<<<<"-", "7">>>>),
      File(<<<<"+", "5">>>>),
      File(<<<<"0", "0", "7">>>>),
      File(<<<<"-", "0">>>>),
      File(<<<<"9", "2", "2", "3", "3", "7", "2", "0", "3", "6", "8", "5", "4", "7", "7", "5", "8", "0", "7">>>>),
      File(<<<<"9", "2", "2", "3", "3", "7", "2", "0", "3", "6", "8", "5", "4", "7", "7", "5", "8", "0", "8">>>>),
      File(<<<<"-", "9", "2", "2", "3", "3", "7", "2", "0", "3", "6", "8", "5", "4", "7", "7", "5", "8", "0", "8">>>>),
      File(<<<<"-", "9", "2", "2", "3", "3", "7", "2", "0", "3", "6", "8", "5", "4", "7", "7", "5", "8", "0", "9">>>>),
      File(<<<<"n", "o", "t", "-", "a", "-", "n", "u", "m", "b", "e", "r">>>>),
      File(<<<<"1", "2", "x">>>>),
      File(<<<<"x", "1", "2">>>>),
      File(<<<<"-">>>>),
      File(<<<<"+">>>>),
      File(<<<<" ", "4", "2">>>>),
      File(<<<<"4", "2", " ">>>>),
      File(<<<<"m", "a", "x", "i">>>>),
      File(<<<<"m", "a">>>>),
      File(<<<<"4", " ", "2">>>>),
      File(<<>>), File(<<<<"1">>, <<"2">>>>), Unreadable }

\* get_int64_from_file telling "max" with strcmp
int64_from_file_outcome_strcmp(ftr) ==
    LET f == read_one_nlsv(ftr)
        r == scanint8(f.line)
    IN  IF f.err # "none" THEN [err |-> f.err, ret |-> <<>>]
        ELSE IF f.line = <<"m", "a", "x">>
        THEN [err |-> "none", ret |-> [neg |-> FALSE, digits |-> PG_INT64_MAX]]
        ELSE IF ~r.ok THEN [err |-> "contents not an integer", ret |-> <<>>]
        ELSE [err |-> "none", ret |-> [neg |-> r.neg, digits |-> r.digits]]

\* get_int64_from_file: the error raised (or "none") and the int64 returned,
\* as its sign and magnitude
int64_from_file_outcome(ftr) ==
    LET f == read_one_nlsv(ftr)
        r == scanint8(f.line)
    IN  IF f.err # "none" THEN [err |-> f.err, ret |-> <<>>]
        ELSE IF strcasecmp_chars(f.line, <<"m", "a", "x">>)
        THEN [err |-> "none", ret |-> [neg |-> FALSE, digits |-> PG_INT64_MAX]]
        ELSE IF ~r.ok THEN [err |-> "contents not an integer", ret |-> <<>>]
        ELSE [err |-> "none", ret |-> [neg |-> r.neg, digits |-> r.digits]]

\* the file the call is to read is the one held in procfile
get_int64_from_file ==
    /\ Pending("get_int64_from_file")
    /\ LET o == int64_from_file_outcome(last.key.arg)
       IN  Returned("get_int64_from_file", last.key.arg, o.err, o.ret)
    /\ PureFrame

\* getInt64FromFile of src/pgnodemx.c compares with strcmp
getInt64FromFile_outcome(ftr) ==
    LET f == read_one_nlsv(ftr)
        r == scanint8(f.line)
    IN  IF f.err # "none" THEN [err |-> f.err, ret |-> <<>>]
        ELSE IF f.line = <<"m", "a", "x">>
        THEN [err |-> "none", ret |-> [neg |-> FALSE, digits |-> PG_INT64_MAX]]
        ELSE IF ~r.ok THEN [err |-> "contents not an integer", ret |-> <<>>]
        ELSE [err |-> "none", ret |-> [neg |-> r.neg, digits |-> r.digits]]

getInt64FromFile ==
    /\ Pending("getInt64FromFile")
    /\ LET o == getInt64FromFile_outcome(last.key.arg)
       IN  Returned("getInt64FromFile", last.key.arg, o.err, o.ret)
    /\ PureFrame

----------------------------------------------------------------------------
(* get_double_from_file, src/parseutils.c *)

DBL_MAX == "DBL_MAX"

\* the files a double is read from
DoubleFiles ==
    { File(<<<<"m", "a", "x">>>>),
      File(<<<<"M", "A", "X">>>>),
      File(<<<<"M", "a", "x">>>>),
      File(<<<<"1", ".", "5">>>>),
      File(<<<<"4", "2">>>>),
      File(<<<<"-", "0", ".", "2", "5">>>>),
      File(<<<<"+", "7">>>>),
      File(<<<<"i", "n", "f">>>>),
      File(<<<<"I", "n", "f", "i", "n", "i", "t", "y">>>>),
      File(<<<<"N", "a", "N">>>>),
      File(<<<<"m", "a", "x", "i">>>>),
      File(<<<<"x">>>>),
      File(<<<<"1", ".">>>>),
      File(<<<<".", "5">>>>),
      File(<<<<"1", ".", "5", "x">>>>),
      File(<<<<".">>>>),
      File(<<<<" ", "2">>>>),
      File(<<>>), File(<<<<"1">>, <<"2">>>>), Unreadable }

\* float8in_internal on the whole string: the text of the number it reads
\* (digits with an optional sign and fraction, or infinity or NaN in any
\* letter case, white space allowed around it), or no number
float8in_internal(str) ==
    LET from == skip_spaces(str, 1)
        rest == Tail_from(str, from)
        body == IF rest # <<>> /\ rest[1] \in {"+", "-"} THEN Tail(rest) ELSE rest
        int  == skip_digits(body, 1)
        frac == IF int <= Len(body) /\ body[int] = "." THEN skip_digits(body, int + 1) ELSE int
        digits == (int - 1) + (IF frac > int THEN frac - int - 1 ELSE 0)
        word(w) == Len(body) >= Len(w) /\ strcasecmp_chars(SubSeq(body, 1, Len(w)), w)
        end == IF word(<<"i","n","f","i","n","i","t","y">>) THEN 9
               ELSE IF word(<<"i","n","f">>) THEN 4
               ELSE IF word(<<"n","a","n">>) THEN 4
               ELSE IF digits > 0 THEN frac
               ELSE 0
    IN  IF end = 0 \/ skip_spaces(body, end) <= Len(body)
        THEN [ok |-> FALSE, num |-> <<>>]
        ELSE [ok |-> TRUE, num |-> SubSeq(rest, 1, Len(rest) - Len(body) + end - 1)]

\* get_double_from_file: the error raised (or "none") and the double
\* returned, DBL_MAX or the number read
double_from_file_outcome(ftr) ==
    LET f == read_one_nlsv(ftr)
        r == float8in_internal(f.line)
    IN  IF f.err # "none" THEN [err |-> f.err, ret |-> <<>>]
        ELSE IF f.line = <<"m", "a", "x">> THEN [err |-> "none", ret |-> DBL_MAX]
        ELSE IF ~r.ok
        THEN [err |-> "invalid input syntax for type double precision", ret |-> <<>>]
        ELSE [err |-> "none", ret |-> r.num]

get_double_from_file ==
    /\ Pending("get_double_from_file")
    /\ LET o == double_from_file_outcome(last.key.arg)
       IN  Returned("get_double_from_file", last.key.arg, o.err, o.ret)
    /\ PureFrame

----------------------------------------------------------------------------
(* read_nlsv on arbitrary text, src/parseutils.c *)

MaxText == 4

\* the texts a virtual file may hold: up to MaxText characters, newlines among them
RECURSIVE TextsOfLen(_)
TextsOfLen(n) ==
    IF n = 0 THEN { <<>> }
    ELSE { Append(t, c) : t \in TextsOfLen(n - 1), c \in {"a", "b", "\n"} }
TextFiles == { [ok |-> TRUE, data |-> t] : t \in UNION { TextsOfLen(n) : n \in 0..MaxText } }

\* a call of read_nlsv: the file read is the one held in procfile, the
\* result is the array of lines (nlines is its length)
call_read_nlsv ==
    /\ Pending("read_nlsv")
    /\ LET o == read_nlsv(last.key.arg)
       IN  Returned("read_nlsv", last.key.arg, o.err, o.lines)
    /\ PureFrame

----------------------------------------------------------------------------
(* parse_nested_keyed_line, src/parseutils.c *)

MaxSub == 4

\* the columns after the first: up to MaxSub characters, '=' among them
RECURSIVE SubsOfLen(_)
SubsOfLen(n) ==
    IF n = 0 THEN { <<>> }
    ELSE { Append(t, c) : t \in SubsOfLen(n - 1), c \in {"a", "=", "0"} }

\* the lines parsed: a memory.stat-like line, and a lead value with one column
NestedKeyedLines ==
    { <<"2", "5", "3", "9", "5", "2", " ", "a", "n", "o", "n", "=", "0", " ", "f", "i", "l", "e", "=", "1", "2", "2", "8", "8", " ", "k", "e", "r", "n", "e", "l", "=", "0">> }
    \cup { <<"1", " ">> \o t : t \in UNION { SubsOfLen(n) : n \in 0..MaxSub } }

\* the loop over the tokens from token k on: the pairs appended to nkl, or
\* the error raised
RECURSIVE nested_keyed_loop(_, _, _)
nested_keyed_loop(tokens, k, nkl) ==
    IF k > Len(tokens) THEN [err |-> "none", ret |-> nkl]
    ELSE IF nkl.nkvp > 0
    THEN LET sub == strtok(tokens[k], "=")
         IN  IF Len(sub) = 0
             THEN [err |-> "missing key in nested keyed line", ret |-> <<>>]
             ELSE IF Len(sub) = 1
             THEN [err |-> "missing value in nested keyed line", ret |-> <<>>]
             ELSE nested_keyed_loop(tokens, k + 1,
                     [nkvp |-> nkl.nkvp + 1, keys |-> Append(nkl.keys, sub[1]),
                      values |-> Append(nkl.values, sub[2])])
    ELSE nested_keyed_loop(tokens, k + 1,
            [nkvp |-> 1, keys |-> <<<<"k", "e", "y">>>>, values |-> <<tokens[k]>>])

parse_nested_keyed_line_outcome(line) ==
    nested_keyed_loop(strtok(line, " "), 1, [nkvp |-> 0, keys |-> <<>>, values |-> <<>>])

parse_nested_keyed_line ==
    /\ Pending("parse_nested_keyed_line")
    /\ LET o == parse_nested_keyed_line_outcome(last.key.arg)
       IN  Returned("parse_nested_keyed_line", last.key.arg, o.err, o.ret)
    /\ PureFrame

----------------------------------------------------------------------------
(* parse_quoted_string and parse_keqv_line, src/parseutils.c *)

MaxValue == 4

quote == "\""
backslash == "\\"

\* the text after "k=": up to MaxValue characters, quotes, backslashes and
\* '=' among them
RECURSIVE ValuesOfLen(_)
ValuesOfLen(n) ==
    IF n = 0 THEN { <<>> }
    ELSE { Append(t, c) : t \in ValuesOfLen(n - 1), c \in {"a", "n", "=", quote, backslash} }

\* the lines parsed: the Kubernetes Downward API examples and "k=<text>"
KeqvLines ==
    { <<"c", "l", "u", "s", "t", "e", "r", "=", "\"", "t", "e", "s", "t", "-", "c", "l", "u", "s", "t", "e", "r", "1", "\"">>,
      <<"v", "a", "r", "=", "\"", "a", "b", "c", "=", "1", "2", "3", "\"">>,
      <<"m", "u", "l", "t", "i", "l", "i", "n", "e", "=", "\"", "m", "u", "l", "t", "i", "\\", "n", "l", "i", "n", "e", "\"">>,
      <<"q", "u", "o", "t", "e", "d", "=", "\"", "{", "\\", "\"", "q", "u", "o", "t", "e", "d", "\\", "\"", ":", "\\", "\"", "j", "s", "o", "n", "\\", "\"", "}", "\"">>,
      <<"t", "=", "\"", "a", "\\", "t", "b", "\"">>,
      <<"q", "=", "\"", "a", "\\", "q", "b", "\"">>,
      <<>>,
      <<"=">>,
      <<"k">>,
      <<"=", "v">> }
    \cup { <<"k", "=">> \o t : t \in UNION { ValuesOfLen(n) : n \in 0..MaxValue } }

\* the while loop of parse_quoted_string: src is the whole string, i the
\* position of the src pointer, dst what was written so far, size the bytes
\* allocated.  Only the default case and the plain copy advance src; when
\* dst has run past the allocation the loop is writing over the heap with
\* src standing still, and the process dies.
RECURSIVE quoted_loop(_, _, _, _, _)
quoted_loop(src, i, dst, lastSlash, size) ==
    IF Len(dst) > size THEN [crash |-> TRUE, ret |-> dst, i |-> i]
    ELSE IF i > Len(src) THEN [crash |-> FALSE, ret |-> dst, i |-> i]
    ELSE LET c == src[i]
         IN  IF lastSlash
             THEN IF c = backslash THEN quoted_loop(src, i, Append(dst, backslash), FALSE, size)
                  ELSE IF c = "n" THEN quoted_loop(src, i, Append(dst, "\n"), FALSE, size)
                  ELSE IF c = "t" THEN quoted_loop(src, i, Append(dst, "\t"), FALSE, size)
                  ELSE IF c = quote THEN quoted_loop(src, i, Append(dst, quote), FALSE, size)
                  ELSE quoted_loop(src, i + 1, Append(dst, c), FALSE, size)
             ELSE IF c = quote /\ i = Len(src) THEN [crash |-> FALSE, ret |-> dst, i |-> i]
                  ELSE IF c = backslash THEN quoted_loop(src, i, dst, TRUE, size)
                  ELSE quoted_loop(src, i + 1, Append(dst, c), FALSE, size)

\* parse_quoted_string: the string returned, what *source is left pointing
\* at, whether the loop ran off the allocation, and whether the terminating
\* NUL was written one byte past the strlen(src) bytes allocated
parse_quoted_string(str) ==
    LET o == quoted_loop(str, IF str # <<>> /\ str[1] = quote THEN 2 ELSE 1,
                         <<>>, FALSE, Len(str))
    IN  [crash |-> o.crash, ret |-> o.ret, left |-> Tail_from(str, o.i),
         overrun |-> ~o.crash /\ Len(o.ret) + 1 > Len(str)]

\* the strings parse_quoted_string is called on
QuotedStrings == UNION { ValuesOfLen(n) : n \in 0..MaxValue }

\* a call of parse_quoted_string by itself; a NUL written past the allocation
\* either goes unnoticed or kills the process
call_parse_quoted_string ==
    /\ Pending("parse_quoted_string")
    /\ LET o == parse_quoted_string(last.key.arg)
       IN  \E dies \in (IF o.overrun THEN BOOLEAN ELSE {FALSE}) :
              IF o.crash \/ dies
              THEN Returned("parse_quoted_string", last.key.arg, "crash", <<>>)
              ELSE Returned("parse_quoted_string", last.key.arg, "none", o.ret)
    /\ PureFrame

\* strtok_r(line, "=", &lstate): the first token and the text lstate points at
first_token(line, from) ==
    LET e == strchr_from(line, "=", from)
    IN  [tok |-> SubSeq(line, from, (IF e = 0 THEN Len(line) ELSE e - 1)),
         lstate |-> IF e = 0 THEN <<>> ELSE Tail_from(line, e + 1)]
RECURSIVE skip_delims(_, _)
skip_delims(line, k) ==
    IF k <= Len(line) /\ line[k] = "=" THEN skip_delims(line, k + 1) ELSE k

\* parse_keqv_line: ntok, the two values, and the faults of the buffer
parse_keqv_line_outcome(line) ==
    LET from == skip_delims(line, 1)
    IN  IF from > Len(line)
        THEN [err |-> "expected 2 tokens, found 0", ret |-> <<>>, overrun |-> FALSE]
        ELSE LET t == first_token(line, from)
                 q == parse_quoted_string(t.lstate)
             IN  IF q.crash THEN [err |-> "crash", ret |-> <<>>, overrun |-> FALSE]
                 ELSE IF Len(q.left) > 0
                 THEN [err |-> "expected 2 tokens, found 3", ret |-> <<>>,
                       overrun |-> q.overrun]
                 ELSE [err |-> "none", ret |-> <<t.tok, q.ret>>, overrun |-> q.overrun]

\* a NUL written past the allocation either goes unnoticed or kills the process
parse_keqv_line ==
    /\ Pending("parse_keqv_line")
    /\ LET o == parse_keqv_line_outcome(last.key.arg)
       IN  \E dies \in (IF o.overrun THEN BOOLEAN ELSE {FALSE}) :
              IF dies THEN Returned("parse_keqv_line", last.key.arg, "crash", <<>>)
              ELSE Returned("parse_keqv_line", last.key.arg, o.err, o.ret)
    /\ PureFrame

----------------------------------------------------------------------------
(* read_vfs, src/fileutils.c: the read loop over a stdio stream *)

\* the sizes of the allocator and of the reads, scaled down: MaxAllocSize
\* is 0x3fffffff, MIN_READ_SIZE 4096 and a fresh StringInfo holds 1024 bytes
MaxAllocSize == 15
MIN_READ_SIZE == 2
InitialStringInfoSize == 4

NoReadError == 0 - 1

\* the streams read: whether the file opens, the bytes it holds (numbered
\* from 1) and the offset at which a read fails, if any
Streams ==
    { [opens |-> o, size |-> n, errat |-> e] :
        o \in BOOLEAN, n \in 0..(MaxAllocSize + 2), e \in {NoReadError} \cup (0..(MaxAllocSize + 2)) }
    \ { f \in [opens : BOOLEAN, size : 0..(MaxAllocSize + 2),
               errat : {NoReadError} \cup (0..(MaxAllocSize + 2))] :
          f.errat > f.size \/ (~f.opens /\ (f.size # 0 \/ f.errat # NoReadError)) }

\* fread(ptr, 1, n, file) at offset pos: the bytes delivered and the end-of-file
\* and error indicators it leaves; it comes back short only for one of the two
fread(f, pos, n) ==
    LET upto  == IF f.errat # NoReadError THEN f.errat ELSE f.size
        r     == IF n <= upto - pos THEN n ELSE upto - pos
    IN  [rbytes |-> r,
         feof   |-> r < n /\ f.errat = NoReadError,
         ferror |-> r < n /\ f.errat # NoReadError]

\* enlargeStringInfo(&sbuf, needed): the new maxlen, 0 when it raises
RECURSIVE doubled(_, _)
doubled(newlen, needed) == IF needed > newlen THEN doubled(2 * newlen, needed) ELSE newlen
enlargeStringInfo(len, maxlen, needed) ==
    IF needed >= MaxAllocSize - len THEN 0
    ELSE IF needed + len + 1 <= maxlen THEN maxlen
    ELSE LET newlen == doubled(2 * maxlen, needed + len + 1)
         IN  IF newlen > MaxAllocSize THEN MaxAllocSize ELSE newlen

\* the while loop and what follows it, with ferror tested after the loop
\* or not: sbuf.len bytes were read so far
RECURSIVE read_vfs_loop(_, _, _, _, _, _)
read_vfs_loop(f, len, maxlen, eof, error, tested) ==
    IF eof \/ error
    THEN IF error /\ tested THEN [err |-> "could not read file", ret |-> <<>>]
         ELSE [err |-> "none", ret |-> [k \in 1..len |-> k]]
    ELSE IF len = MaxAllocSize - 1
    THEN LET one == fread(f, len, 1)
         IN  IF one.rbytes # 0 \/ ~one.feof
             THEN [err |-> "file length too large", ret |-> <<>>]
             ELSE [err |-> "none", ret |-> [k \in 1..len |-> k]]
    ELSE LET room == enlargeStringInfo(len, maxlen, MIN_READ_SIZE)
             got  == fread(f, len, room - len - 1)
         IN  IF room = 0 THEN [err |-> "out of memory", ret |-> <<>>]
             ELSE read_vfs_loop(f, len + got.rbytes, room, got.feof, got.ferror, tested)

\* read_vfs without the test of ferror after the loop
read_vfs_outcome_unchecked(f) ==
    IF ~f.opens THEN [err |-> "could not open file", ret |-> <<>>]
    ELSE read_vfs_loop(f, 0, InitialStringInfoSize, FALSE, FALSE, FALSE)

\* read_vfs: the error raised or the buffer returned
read_vfs_outcome(f) ==
    IF ~f.opens THEN [err |-> "could not open file", ret |-> <<>>]
    ELSE read_vfs_loop(f, 0, InitialStringInfoSize, FALSE, FALSE, TRUE)

call_read_vfs ==
    /\ Pending("read_vfs")
    /\ LET o == read_vfs_outcome(last.key.arg)
       IN  Returned("read_vfs", last.key.arg, o.err, o.ret)
    /\ PureFrame

----------------------------------------------------------------------------
(* pgnodemx_permute_list, src/cgroup.c *)

MaxTokens == 4

\* the lists permuted: the first n of the tokens c1, c2, ..., a list with a
\* token twice, one with an empty token, one in upper case and one too long
PermuteLists ==
    { JoinWith([i \in 1..n |-> <<ElevenToks[i]>>], ",") : n \in 1..MaxTokens }
    \cup { <<>>, <<"c1", ",", "c1">>, <<"c1", ",", ",", "c2">>, <<"MEMORY", ",", "cpu">>,
           JoinWith([i \in 1..11 |-> <<ElevenToks[i]>>], ",") }

\* pgnodemx_permute_list: the rows handed to form_srf, nrow, and the number
\* of rows get_list_permutations precalculated (0 when it returned early)
permute_list_outcome(controller) ==
    LET sp == SplitIdentifierString(controller)
        values == get_list_permutations(controller)
    IN  IF get_list_permutations_crashes(controller)
        THEN [err |-> "crash", ret |-> <<>>]
        ELSE [err |-> "none",
              ret |-> [values |-> values, nrow |-> Len(values),
                       fact |-> IF sp.ok /\ Len(sp.list) <= MAX_PERM_ARRLEN
                                THEN fact_loop(1, 1, Len(sp.list)) ELSE 0]]

pgnodemx_permute_list ==
    /\ Pending("pgnodemx_permute_list")
    /\ LET o == permute_list_outcome(last.key.arg)
       IN  Returned("pgnodemx_permute_list", last.key.arg, o.err, o.ret)
    /\ PureFrame

----------------------------------------------------------------------------
(* The readers of the table: get_fq_cgroup_path and cgmembers, src/cgroup.c *)

\* the file names callers ask for
FqFileNames ==
    { <<"memory", ".", "max">>, <<"cpu", ".", "stat">>, <<"io", ".", "stat">>,
      <<"nodot">>, <<"/", "memory", ".", "max">>, <<"..", "/", "memory", ".", "max">> }

\* convert_and_check_filename: the error raised or "none"
convert_and_check_filename(member, fname) ==
    IF ~member THEN "must be member of pg_monitor role"
    ELSE IF fname[1] = "/" THEN "reference to absolute path not allowed"
    ELSE IF \E k \in 1..Len(fname) : fname[k] = ".."
         THEN "reference to parent directory not allowed"
    ELSE "none"

\* get_fq_cgroup_path: the outcomes the call can have
get_fq_cgroup_path_of(t, member, fname) ==
    LET e == convert_and_check_filename(member, fname)
        p == strchr(fname, ".")
    IN  IF e # "none" THEN {[err |-> e, ret |-> <<>>]}
        ELSE IF p = 0 THEN {[err |-> "missing . in filename", ret |-> <<>>]}
        ELSE { IF o.err # "none" THEN o ELSE [err |-> "none", ret |-> Slash(o.ret, fname)] :
                 o \in get_cgpath_value_of(t, SubSeq(fname, 1, p - 1)) }

get_fq_cgroup_path ==
    /\ cgpath.alloc
    /\ \E member \in BOOLEAN : \E fname \in FqFileNames :
       \E o \in get_fq_cgroup_path_of(cgpath, member, fname) :
          last' = [op |-> "get_fq_cgroup_path", err |-> o.err, key |-> fname, ret |-> o.ret,
                   probe |-> NoProbe, again |-> FALSE]
    /\ UNCHANGED <<cgmode, cgpath>>
    /\ Frame

\* what cgroup.procs of the default entry may hold when cgmembers reads it
ProcsRead ==
    { [err |-> "could not open file", lines |-> <<>>],
      [err |-> "none", lines |-> <<>>],
      [err |-> "none", lines |-> << <<"2", "0">>, <<"9">>, <<"2", "0">> >>] }

\* cgmembers from its lookup of the "cgroup" entry on
cgmembers_of(t, f) ==
    { IF o.err # "none" THEN o
      ELSE IF f.err # "none" THEN [err |-> f.err, ret |-> <<>>]
      ELSE cgmembers_outcome(f.lines) :
        o \in get_cgpath_value_of(t, DEFAULT_KEY) }

cgmembers_lookup ==
    /\ cgpath.alloc
    /\ \E f \in ProcsRead : \E o \in cgmembers_of(cgpath, f) :
          last' = [op |-> "cgmembers", err |-> o.err, key |-> DEFAULT_KEY, ret |-> o.ret,
                   probe |-> NoProbe, again |-> FALSE]
    /\ UNCHANGED <<cgmode, cgpath>>
    /\ Frame

----------------------------------------------------------------------------
(* What the properties below read off a state *)

\* the lines of /proc/self/cgroup
Lines == strtok(procfile.data, "\n")

\* the fields of a line <hierarchyID>:<controllerList>:/<relativePath>
Fields(line) == split_keep(line, ":", <<>>, <<>>)
ControllerList(line) ==
    LET f == Fields(line)[2]
        eq == strchr(f, "=")
    IN  IF eq = 0 THEN f ELSE SubSeq(f, eq + 1, Len(f))
RelativePath(line) == Tail(Fields(line)[3])

HasComma(c) == \E k \in 1..Len(c) : c[k] = ","
Tokens(c) == split_keep(c, ",", <<>>, <<>>)

\* the candidate path of a controller list
CandidatePath(c, rel) ==
    IF containerized THEN cgrouproot \o <<"/">> \o c
    ELSE cgrouproot \o <<"/">> \o c \o <<"/">> \o rel

Count(seq, x) == Cardinality({k \in 1..Len(seq) : seq[k] = x})
Colons(line) == Count(line, ":")
IsPermutation(a, b) ==
    /\ Len(a) = Len(b)
    /\ \A k \in 1..Len(a) : Count(a, a[k]) = Count(b, a[k])

\* the directories on disk that are the candidate path of an ordering of c
PermutationDirs(c, rel) ==
    { d \in dirs : \E j \in 3..Len(d) :
        /\ CandidatePath(SubSeq(d, 3, j), rel) = d
        /\ IsPermutation(Tokens(SubSeq(d, 3, j)), Tokens(c)) }

\* a resolution pass has just completed
PassDone == last.op = "set_cgpath" /\ last.err = "none"
LegacyDone == PassDone /\ cgmode = CGROUP_V1
Complete(t) == t.alloc /\ ~HasGarbage(t)

\* entry i of the table records, for the controller list c, the first
\* ordering (in the order they are generated) whose directory exists
FirstExistingOrdering(i, c, rel) ==
    LET perms == get_list_permutations(c)
    IN  \E k \in 1..Len(perms) :
            /\ cgpath.values[i] = CandidatePath(perms[k], rel)
            /\ cgpath.values[i] \in dirs
            /\ \A j \in 1..(k - 1) : CandidatePath(perms[j], rel) \notin dirs

\* the lines of a completed v1 pass that name a comma-joined list whose
\* as-reported directory does not exist
FallbackLines ==
    { i \in 1..Len(Lines) :
        /\ HasComma(ControllerList(Lines[i]))
        /\ CandidatePath(ControllerList(Lines[i]), RelativePath(Lines[i])) \notin dirs }

----------------------------------------------------------------------------
(* C1 *)

\* C1, as claimed: in Legacy mode, for a comma-joined controller list whose
\* as-reported directory does not exist, the entry is recorded under the
\* original list and holds the path of an ordering whose directory exists
\* whenever some ordering's directory exists, and "Controller_Not_Found"
\* when none does.
C1_AnyListFallsBack ==
    LegacyDone =>
        \A i \in FallbackLines :
            LET c == ControllerList(Lines[i])
                rel == RelativePath(Lines[i])
            IN  /\ cgpath.keys[i] = c
                /\ IF PermutationDirs(c, rel) # {}
                   THEN cgpath.values[i] \in PermutationDirs(c, rel)
                   ELSE cgpath.values[i] = CONTROLLER_NOT_FOUND

\* C1, amended: the same for a list of at most MAX_PERM_ARRLEN tokens, the
\* path recorded being that of the first ordering, in the order Heap's
\* algorithm yields them, whose directory exists; a longer list is recorded
\* with "Controller_Not_Found" without any ordering being tried.
C1_PermutationFallback ==
    LegacyDone =>
        \A i \in FallbackLines :
            LET c == ControllerList(Lines[i])
                rel == RelativePath(Lines[i])
            IN  /\ cgpath.keys[i] = c
                /\ IF Len(Tokens(c)) > MAX_PERM_ARRLEN
                   THEN cgpath.values[i] = CONTROLLER_NOT_FOUND
                   ELSE IF PermutationDirs(c, rel) # {}
                   THEN FirstExistingOrdering(i, c, rel)
                   ELSE cgpath.values[i] = CONTROLLER_NOT_FOUND

\* C1 witness: "cpu,cpuacct" was reported, only cpuacct,cpu exists, and the
\* pass recorded that directory under the key "cpu,cpuacct"
C1_Witness ==
    /\ LegacyDone
    /\ ~containerized
    /\ \E i \in FallbackLines :
        /\ cgpath.keys[i] = <<"cpu", ",", "cpuacct">>
        /\ cgpath.values[i] = P(<<"cpuacct", ",", "cpu">>, <<"foo">>)

----------------------------------------------------------------------------
(* C2 *)

\* the entries of t that answer to key: exactly for a key without comma,
\* by any comma-separated sub-token otherwise
Answering(t, key) ==
    { i \in 1..t.nkvp :
        IF HasComma(t.keys[i]) THEN \E k \in 1..Len(Tokens(t.keys[i])) : Tokens(t.keys[i])[k] = key
        ELSE t.keys[i] = key }

Min(S) == CHOOSE x \in S : \A y \in S : x <= y

LookupDone == last.op = "get_cgpath_value" /\ Complete(cgpath)

\* C2: a lookup in a table without uninitialised slots returns the path of
\* the first entry, in table order, that answers to the key (exact match for
\* a stored key without comma, any sub-token for one with commas), and fails
\* with "failed to find controller" when no entry answers.
C2_LookupFirstMatch ==
    LookupDone =>
        IF Answering(cgpath, last.key) = {}
        THEN last.err = "failed to find controller"
        ELSE /\ last.err = "none"
             /\ last.ret = cgpath.values[Min(Answering(cgpath, last.key))]

\* C2 witness: "cpuacct" was looked up and answered by the entry "cpu,cpuacct"
C2_Witness ==
    /\ LookupDone
    /\ last.key = <<"cpuacct">>
    /\ last.err = "none"
    /\ \E i \in 1..cgpath.nkvp :
        cgpath.keys[i] = <<"cpu", ",", "cpuacct">> /\ last.ret = cgpath.values[i]

----------------------------------------------------------------------------
(* C3 *)

\* the entries keyed by the comma-joined list key
HeldJoined(t, key) == { i \in 1..t.nkvp : HasComma(key) /\ t.keys[i] = key }

\* the one result a lookup of key in a complete table has
LookupResult(t, key) == CHOOSE o \in get_cgpath_value_of(t, key) : TRUE

\* C3, as claimed: a lookup of a comma-joined key held by the table succeeds
\* and every member of the list looks up to the same path.
C3_RoundTripJoinedKey ==
    (LookupDone /\ HeldJoined(cgpath, last.key) # {}) =>
        /\ last.err = "none"
        /\ \A k \in 1..Len(Tokens(last.key)) :
              LookupResult(cgpath, Tokens(last.key)[k]) = [err |-> "none", ret |-> last.ret]

\* C3, amended: a lookup of a member of a comma-joined key held by the table
\* returns the path recorded under the joined key (no earlier entry holding
\* that member), while a lookup of the joined key itself fails with "failed
\* to find controller".
C3_MembersResolveJoinedFails ==
    LookupDone =>
        /\ HeldJoined(cgpath, last.key) # {} => last.err = "failed to find controller"
        /\ \A i \in 1..cgpath.nkvp :
              ( /\ HasComma(cgpath.keys[i])
                /\ \E k \in 1..Len(Tokens(cgpath.keys[i])) : Tokens(cgpath.keys[i])[k] = last.key
                /\ \A j \in 1..(i - 1) : j \notin Answering(cgpath, last.key) )
              => (last.err = "none" /\ last.ret = cgpath.values[i])

\* C3 witness: the joined key "cpu,cpuacct" is held by the table and its
\* lookup failed
C3_Witness ==
    /\ LookupDone
    /\ last.key = <<"cpu", ",", "cpuacct">>
    /\ HeldJoined(cgpath, last.key) # {}
    /\ last.err = "failed to find controller"

----------------------------------------------------------------------------
(* C4 *)

FourModes == {CGROUP_V1, CGROUP_V2, CGROUP_HYBRID, CGROUP_DISABLED}

\* a call of cgroup.c's set_cgmode, made with the subsystem enabled, returned
ModeDetected == last.op = "set_cgmode" /\ last.err = "none" /\ cgroup_enabled

\* the mode the probes of the last call stand for
MappedMode ==
    IF last.probe.root = CGROUP2_SUPER_MAGIC
    THEN IF Len(Lines) = 1 THEN CGROUP_V2 ELSE CGROUP_HYBRID
    ELSE IF last.probe.root = TMPFS_MAGIC
    THEN IF last.probe.unified = CGROUP2_SUPER_MAGIC THEN CGROUP_HYBRID ELSE CGROUP_V1
    ELSE CGROUP_DISABLED

----------------------------------------------------------------------------
(* C5 *)

\* C5: mode detection never raises an error to its caller; a failed statfs of
\* the cgroup root and an unexpected mount type are logged as warnings and
\* leave the mode Disabled.
C5_DetectionNeverRaises ==
    last.op \in {"set_cgmode", "pgnodemx_set_cgmode"} =>
        /\ last.err = "none"
        /\ last.probe.root \notin {CGROUP2_SUPER_MAGIC, TMPFS_MAGIC, "-"} =>
              (cgmode = CGROUP_DISABLED /\ last.ret = <<"WARNING">>)

----------------------------------------------------------------------------
(* C6 *)

\* C6: when the root is a cgroup2 mount and the self-cgroup file, read
\* successfully, does not hold exactly one line, set_cgmode sets the mode
\* to Hybrid.
C6_V2RootManyLinesIsHybrid ==
    ( /\ last.op = "set_cgmode"
      /\ cgroup_enabled
      /\ last.probe.root = CGROUP2_SUPER_MAGIC
      /\ procfile.ok
      /\ Len(Lines) # 1 )
    => (last.err = "none" /\ cgmode = CGROUP_HYBRID)

\* C6 witness: a cgroup2 root with a two-line self-cgroup file was detected
\* as Hybrid
C6_Witness ==
    /\ last.op = "set_cgmode"
    /\ last.probe.root = CGROUP2_SUPER_MAGIC
    /\ procfile.ok
    /\ Len(Lines) = 2
    /\ cgmode = CGROUP_HYBRID

----------------------------------------------------------------------------
(* C7 *)

\* C7: a call of set_cgpath made in Hybrid or Disabled mode, once it has
\* reset the old table, raises "unsupported cgroup configuration" and leaves
\* the table without entries.
C7_UnsupportedModeFails ==
    ( /\ last.op = "set_cgpath"
      /\ last.err # "crash"
      /\ cgmode \in {CGROUP_HYBRID, CGROUP_DISABLED} )
    => /\ last.err = "unsupported cgroup configuration"
       /\ cgpath = EmptyTable

\* C7 witness: set_cgpath was called in Disabled mode and failed
C7_Witness ==
    /\ last.op = "set_cgpath"
    /\ cgmode = CGROUP_DISABLED
    /\ last.err = "unsupported cgroup configuration"
    /\ cgpath.nkvp = 0

----------------------------------------------------------------------------
(* C8 *)

\* C8: a resolution pass that raises an error leaves the complete table of
\* the previous successful pass published.
C8_FailedPassKeepsTable ==
    [][ ( /\ Complete(cgpath)
          /\ cgpath.nkvp > 0
          /\ last'.op = "set_cgpath"
          /\ last'.err \notin {"none", "crash"} )
        => cgpath' = cgpath ]_vars

----------------------------------------------------------------------------
(* C9 *)

\* the entries, before the last, whose controller list holds "memory"
HoldsMemory(t) ==
    { i \in 1..(t.nkvp - 1) :
        \E k \in 1..Len(Tokens(t.keys[i])) : LowerStr(Tokens(t.keys[i])[k]) = DEFCONTROLLER }

\* C9: after a completed resolution pass the last entry of the table is the
\* default entry, and its path is the path of the entry that holds the
\* memory controller, also when memory is part of a comma-joined list, or a
\* sentinel when no entry holds it.
C9_DefaultEntryFollowsMemory ==
    PassDone =>
        /\ cgpath.nkvp >= 1
        /\ cgpath.keys[cgpath.nkvp] = DEFAULT_KEY
        /\ IF HoldsMemory(cgpath) = {}
           THEN cgpath.values[cgpath.nkvp] \in {CONTROLLER_NOT_FOUND, DEFAULT_CONTROLLER_NOT_FOUND}
           ELSE cgpath.values[cgpath.nkvp] = cgpath.values[Min(HoldsMemory(cgpath))]

----------------------------------------------------------------------------
(* C10 *)

\* C10: in Legacy mode a line whose controller list has no comma is recorded
\* with its candidate path if that directory exists and with
\* "Controller_Not_Found" if not; a pass fails only on an unreadable, empty
\* or malformed self-cgroup file, never on a missing directory; and a lookup
\* answered by an entry holding the sentinel returns the sentinel without error.
C10_SingleControllerDeferred ==
    /\ LegacyDone =>
          \A i \in 1..Len(Lines) :
              LET c == ControllerList(Lines[i])
                  str == CandidatePath(c, RelativePath(Lines[i]))
              IN  ~HasComma(c) =>
                      /\ cgpath.keys[i] = c
                      /\ cgpath.values[i] = IF str \in dirs THEN str ELSE CONTROLLER_NOT_FOUND
    /\ (last.op = "set_cgpath" /\ cgmode = CGROUP_V1 /\ last.err \notin {"none", "crash"}) =>
          \/ ~procfile.ok
          \/ Len(Lines) = 0
          \/ \E i \in 1..Len(Lines) : Colons(Lines[i]) < 2
    /\ ( /\ LookupDone
         /\ Answering(cgpath, last.key) # {}
         /\ cgpath.values[Min(Answering(cgpath, last.key))] = CONTROLLER_NOT_FOUND )
       => (last.err = "none" /\ last.ret = CONTROLLER_NOT_FOUND)

\* C10 witness: in Legacy mode the memory directory is missing, the pass
\* completed, and a lookup of "memory" returned the sentinel without error
C10_Witness ==
    /\ LookupDone
    /\ cgmode = CGROUP_V1
    /\ last.key = <<"memory">>
    /\ \E i \in 1..Len(Lines) :
          /\ ControllerList(Lines[i]) = <<"memory">>
          /\ CandidatePath(<<"memory">>, RelativePath(Lines[i])) \notin dirs
          /\ cgpath.keys[i] = <<"memory">>
    /\ last.err = "none"
    /\ last.ret = CONTROLLER_NOT_FOUND

----------------------------------------------------------------------------
(* C11 *)

\* C11: a set_cgpath call that directly follows a set_cgpath call, with the
\* mode, the containerized flag, the self-cgroup file and the directories
\* unchanged, and that gets past the reset of the old table, ends like the
\* first and leaves a table identical to the one the first left.
C11_Idempotent ==
    [][ (last.op = "set_cgpath" /\ last'.op = "set_cgpath" /\ last'.err # "crash")
        => (cgpath' = cgpath /\ last'.err = last.err) ]_vars

\* C11 witness: a second pass in a row has completed on a table of three or
\* more entries
C11_Witness ==
    /\ last.op = "set_cgpath"
    /\ last.again
    /\ last.err = "none"
    /\ cgpath.nkvp >= 3

----------------------------------------------------------------------------
(* C12 *)

\* the base directory of a v2 host
BaseDirectory ==
    IF containerized THEN cgrouproot
    ELSE cgrouproot \o <<"/">> \o SubSeq(Lines[1], 5, Len(Lines[1]))

\* the controller tokens that cgroup.controllers lists
ControllerTokens ==
    LET d == ctlfile.file.data
        w == { k \in 1..Len(d) : d[k] \notin {" ", "\n"} }
        nth[k \in 0..Len(d)] ==
            IF k = 0 THEN <<>>
            ELSE IF k \in w THEN Append(nth[k - 1], <<d[k]>>) ELSE nth[k - 1]
    IN  nth[Len(d)]

\* a pass was made in Unified mode with a one-line self-cgroup file and a
\* readable cgroup.controllers in the base directory
UnifiedPass ==
    /\ last.op = "set_cgpath"
    /\ last.err # "crash"
    /\ cgmode = CGROUP_V2
    /\ procfile.ok
    /\ Len(Lines) = 1
    /\ ctlfile.file.ok
    /\ ctlfile.dir = BaseDirectory

\* C12: in Unified mode, whatever number n >= 0 of controllers
\* cgroup.controllers lists, the pass succeeds and leaves n + 1 entries, one
\* per controller and the default entry last, every one with the base
\* directory as its path.
C12_UnifiedEntries ==
    UnifiedPass =>
        /\ last.err = "none"
        /\ cgpath.nkvp = Len(ControllerTokens) + 1
        /\ cgpath.keys = ControllerTokens \o <<DEFAULT_KEY>>
        /\ \A i \in 1..cgpath.nkvp : cgpath.values[i] = BaseDirectory

----------------------------------------------------------------------------
(* C13 *)

\* the lines of the self-cgroup file that name the memory controller
MemoryLines ==
    { i \in 1..Len(Lines) :
        Colons(Lines[i]) >= 2 /\
        \E k \in 1..Len(Tokens(ControllerList(Lines[i]))) :
            Tokens(ControllerList(Lines[i]))[k] = DEFCONTROLLER }

\* the path whose existence tells a host from a container; no path when no
\* line names the memory controller
ContainerCandidate ==
    IF cgmode = CGROUP_V2
    THEN cgrouproot \o <<"/">> \o SubSeq(Lines[1], 5, Len(Lines[1]))
    ELSE IF MemoryLines = {} THEN <<>>
    ELSE cgrouproot \o <<"/">> \o DEFCONTROLLER \o <<"/">>
            \o RelativePath(Lines[Min(MemoryLines)])

\* set_containerized has returned from detecting, the setting not coming
\* from the configuration file
Detected ==
    /\ last.op = "set_containerized"
    /\ last.err = "none"
    /\ source # PGC_S_FILE
    /\ cgmode \in {CGROUP_V1, CGROUP_V2}

\* C13: with the setting not given in the configuration file, in Legacy and
\* Unified mode set_containerized leaves containerized false exactly when
\* the candidate path exists: <cgrouproot>/memory/<relative path of the line
\* that names the memory controller>, or <cgrouproot>/<relative path> in
\* Unified mode.
C13_DetectsContainer ==
    Detected => (containerized = (ContainerCandidate \notin dirs))

----------------------------------------------------------------------------
(* C14 *)

\* C14: when the setting was given in the configuration file,
\* set_containerized returns without error and leaves containerized as it
\* was, whatever the mode and the directories on disk.
C14_ConfiguredValueKept ==
    [][ (last'.op = "set_containerized" /\ source = PGC_S_FILE)
        => (containerized' = containerized /\ last'.err = "none") ]_vars

\* C14 witness: containerized = true came from the configuration file and
\* set_containerized has returned on a v1 host whose memory directory
\* exists, the flag still true
C14_Witness ==
    /\ last.op = "set_containerized"
    /\ source = PGC_S_FILE
    /\ containerized
    /\ cgmode = CGROUP_V1
    /\ MemoryLines # {}
    /\ ContainerCandidate \in dirs

----------------------------------------------------------------------------
(* C15 *)

\* the PIDs a file of lines of digits holds
PidsOf(lines) == { MagnitudeValue([k \in 1..Len(lines[i]) |-> DigitValue(lines[i][k])]) :
                     i \in 1..Len(lines) }

\* C15: for a non-empty list of PIDs, unsorted and with duplicates,
\* cgmembers returns a count k and an array whose first k elements are
\* strictly ascending and are exactly the distinct PIDs of the input.
C15_SortedDistinctMembers ==
    ( /\ last.op = "cgmembers"
      /\ Len(last.key) >= 1
      /\ \A i \in 1..Len(last.key) : \A k \in 1..Len(last.key[i]) : isdigit(last.key[i][k]) )
    => /\ last.err = "none"
       /\ last.ret.count \in 1..Len(last.ret.list)
       /\ \A i \in 1..(last.ret.count - 1) : last.ret.list[i] < last.ret.list[i + 1]
       /\ { last.ret.list[i] : i \in 1..last.ret.count } = PidsOf(last.key)

\* C15 witness: the lines 30, 10, 10, 20 gave the count 3 and 10, 20, 30 at
\* the front of the array
C15_Witness ==
    /\ last.op = "cgmembers"
    /\ last.key = << <<"3", "0">>, <<"1", "0">>, <<"1", "0">>, <<"2", "0">> >>
    /\ last.ret.count = 3
    /\ SubSeq(last.ret.list, 1, 3) = <<10, 20, 30>>

----------------------------------------------------------------------------
(* C16 *)

\* the single token of the file read: its one line
Token == Lines[1]

\* the token without the whitespace around it
Trimmed(t) ==
    LET ink == { k \in 1..Len(t) : ~isspace(t[k]) }
    IN  IF ink = {} THEN <<>>
        ELSE SubSeq(t, Min(ink), CHOOSE k \in ink : \A j \in ink : j <= k)

\* the token is a base-10 signed integer: an optional sign and digits
Unsigned(t) == IF Len(t) >= 1 /\ t[1] \in {"+", "-"} THEN Tail(t) ELSE t
IsDecimal(t) ==
    /\ Len(Unsigned(Trimmed(t))) >= 1
    /\ \A k \in 1..Len(Unsigned(Trimmed(t))) : isdigit(Unsigned(Trimmed(t))[k])
DecimalMagnitude(t) ==
    StripZeros([k \in 1..Len(Unsigned(Trimmed(t))) |-> DigitValue(Unsigned(Trimmed(t))[k])])
DecimalNegative(t) == Trimmed(t)[1] = "-" /\ DecimalMagnitude(t) # <<0>>
FitsInt64(t) ==
    MagnitudeLeq(DecimalMagnitude(t),
                 IF DecimalNegative(t) THEN PG_INT64_MIN_MAGNITUDE ELSE PG_INT64_MAX)

\* C16: on a file of one line, get_int64_from_file returns the largest int64
\* when the token is "max" in any letter case, the value of the token when
\* it is a base-10 signed integer that fits an int64, and raises "contents
\* not an integer" for any other token.
C16_Int64OrMax ==
    (last.op = "get_int64_from_file" /\ procfile.ok /\ Len(Lines) = 1) =>
        IF [k \in 1..Len(Token) |-> tolower(Token[k])] = <<"m", "a", "x">>
        THEN last.err = "none" /\ last.ret = [neg |-> FALSE, digits |-> PG_INT64_MAX]
        ELSE IF IsDecimal(Token) /\ FitsInt64(Token)
        THEN /\ last.err = "none"
             /\ last.ret = [neg |-> DecimalNegative(Token), digits |-> DecimalMagnitude(Token)]
        ELSE last.err = "contents not an integer"

\* C16 witness: the file holds "MAX" and the largest int64 was returned
C16_Witness ==
    /\ last.op = "get_int64_from_file"
    /\ procfile.ok
    /\ Lines = << <<"M", "A", "X">> >>
    /\ last.err = "none"
    /\ last.ret.digits = PG_INT64_MAX

----------------------------------------------------------------------------
(* C17 *)

\* the segments of a text between its newlines, empty ones included
RECURSIVE Segments(_, _)
Segments(t, cur) ==
    IF t = <<>> THEN <<cur>>
    ELSE IF Head(t) = "\n" THEN <<cur>> \o Segments(Tail(t), <<>>)
    ELSE Segments(Tail(t), Append(cur, Head(t)))

\* the segments without the empty one that a final newline produces
SegmentsButTrailing(t) ==
    LET segs == Segments(t, <<>>)
    IN  IF t # <<>> /\ t[Len(t)] = "\n" THEN SubSeq(segs, 1, Len(segs) - 1) ELSE segs

\* C17: read_nlsv returns every newline-separated segment of the text as a
\* line, in order, apart from the empty segment after a final newline.
C17_EverySegmentIsALine ==
    (last.op = "read_nlsv" /\ procfile.data # <<>>) =>
        /\ last.err = "none"
        /\ last.ret = SegmentsButTrailing(procfile.data)

----------------------------------------------------------------------------
(* C18 *)

\* the tokens of the line parsed, and the tokens after the first
LineTokens == strtok(last.key, " ")
LaterTokens == { LineTokens[k] : k \in 2..Len(LineTokens) }

\* the text of a token before and after its first '='
BeforeEq(t) == SubSeq(t, 1, strchr(t, "=") - 1)
AfterEq(t) == Tail_from(t, strchr(t, "=") + 1)

\* a later token is well formed when it holds exactly one '=' with a subkey
\* before it and a value after it
WellFormed(t) == Count(t, "=") = 1 /\ BeforeEq(t) # <<>> /\ AfterEq(t) # <<>>
Malformed(t) == Count(t, "=") # 1 \/ AfterEq(t) = <<>>

\* C18: parse_nested_keyed_line pairs token 0 with the subkey "key" and
\* splits every later token at its '=' into (subkey, value); it raises an
\* error when a later token does not hold exactly one '=' or has no value.
C18_NestedKeyedPairs ==
    (last.op = "parse_nested_keyed_line" /\ Len(LineTokens) >= 1) =>
        /\ (\E t \in LaterTokens : Malformed(t)) => last.err # "none"
        /\ (\A t \in LaterTokens : WellFormed(t)) =>
              /\ last.err = "none"
              /\ last.ret.nkvp = Len(LineTokens)
              /\ last.ret.keys[1] = <<"k", "e", "y">>
              /\ last.ret.values[1] = LineTokens[1]
              /\ \A k \in 2..Len(LineTokens) :
                    /\ last.ret.keys[k] = BeforeEq(LineTokens[k])
                    /\ last.ret.values[k] = AfterEq(LineTokens[k])

----------------------------------------------------------------------------
(* C19 and C20 *)

\* the line parsed, its key (the text before the first '=') and the rest
KeqvLine == last.key
KeqvKey == SubSeq(KeqvLine, 1, strchr(KeqvLine, "=") - 1)
KeqvRest == Tail_from(KeqvLine, strchr(KeqvLine, "=") + 1)

\* the rest is a value between two double quotes; Inner is the value
IsQuoted ==
    /\ strchr(KeqvLine, "=") > 1
    /\ Len(KeqvRest) >= 2
    /\ KeqvRest[1] = quote
    /\ KeqvRest[Len(KeqvRest)] = quote
Inner == SubSeq(KeqvRest, 2, Len(KeqvRest) - 1)

\* the characters a value with escapes denotes; "bad" when a backslash ends it
RECURSIVE Decode(_)
Decode(v) ==
    IF v = <<>> THEN <<>>
    ELSE IF Head(v) # backslash
    THEN LET r == Decode(Tail(v)) IN IF r = "bad" THEN "bad" ELSE <<Head(v)>> \o r
    ELSE IF Len(v) = 1 THEN "bad"
    ELSE LET r == Decode(Tail(Tail(v)))
             c == IF v[2] = "n" THEN "\n" ELSE IF v[2] = "t" THEN "\t" ELSE v[2]
         IN  IF r = "bad" THEN "bad" ELSE <<c>> \o r

\* C19: parse_keqv_line splits a line key="value" at its first '=' only and
\* returns the key and the value without its quotes, a '=' inside the value
\* kept.
C19_SplitsAtFirstEquals ==
    (last.op = "parse_keqv_line" /\ IsQuoted /\ Count(Inner, backslash) = 0) =>
        /\ last.err = "none"
        /\ last.ret = <<KeqvKey, Inner>>

\* C20: parse_keqv_line returns a quoted value with each backslash escape
\* replaced by the character it denotes (newline for \n, the escaped
\* character itself when it is not a recognised escape).
C20_EscapesDecoded ==
    (last.op = "parse_keqv_line" /\ IsQuoted /\ Count(Inner, backslash) > 0
        /\ Decode(Inner) # "bad") =>
        /\ last.err = "none"
        /\ last.ret = <<KeqvKey, Decode(Inner)>>

----------------------------------------------------------------------------
(* C21 *)

\* the stream a call of read_vfs was given
Stream == last.key

\* C21: read_vfs returns all the bytes of the file, in order, or raises an
\* error, and never a part of the content: a file that does not open raises
\* the open error, a read that fails before the upper bound is reached raises
\* the read error, and a file that opens and reads without failure but holds
\* more than the upper bound raises the limit error.
C21_CompleteOrError ==
    last.op = "read_vfs" =>
        /\ last.err = "none" =>
              /\ Stream.opens /\ Stream.errat = NoReadError
              /\ last.ret = [k \in 1..Stream.size |-> k]
        /\ ~Stream.opens => last.err = "could not open file"
        /\ (Stream.opens /\ Stream.errat # NoReadError /\ Stream.errat < MaxAllocSize - 1)
              => last.err = "could not read file"
        /\ (Stream.opens /\ Stream.errat = NoReadError /\ Stream.size > MaxAllocSize - 1)
              => last.err = "file length too large"
        /\ (Stream.opens /\ Stream.errat = NoReadError /\ Stream.size <= MaxAllocSize - 1)
              => last.err = "none"

\* C21 witness: a file that took several reads was returned whole
C21_Witness ==
    /\ last.op = "read_vfs"
    /\ last.err = "none"
    /\ Stream.size > 2 * InitialStringInfoSize
    /\ Len(last.ret) = Stream.size

----------------------------------------------------------------------------
(* C22 *)

\* the controller names of a key: the key split on commas
ControllerNames(key) == { Tokens(key)[k] : k \in 1..Len(Tokens(key)) }

\* no controller name is in the name sets of two entries of the table
NamesInOneEntry ==
    \A i \in 1..cgpath.nkvp : \A j \in 1..cgpath.nkvp :
        i # j => ControllerNames(cgpath.keys[i]) \cap ControllerNames(cgpath.keys[j]) = {}

\* the file the pass read names no controller twice: no two lines of the
\* self-cgroup file in Legacy mode, no two tokens of cgroup.controllers in
\* Unified mode
InputNamesOnce ==
    IF cgmode = CGROUP_V1
    THEN \A i \in 1..Len(Lines) : \A j \in 1..Len(Lines) :
            i # j => ControllerNames(ControllerList(Lines[i]))
                        \cap ControllerNames(ControllerList(Lines[j])) = {}
    ELSE \A i \in 1..Len(ControllerTokens) : \A j \in 1..Len(ControllerTokens) :
            i # j => ControllerTokens[i] # ControllerTokens[j]

\* C22 as stated: after every completed resolution pass, whatever the
\* files held, no controller name is in the name sets of two entries.
C22_NamesUniqueForAnyContent ==
    PassDone => NamesInOneEntry

\* C22: after a completed resolution pass over files that name no
\* controller twice, no controller name is in the name sets of two entries.
C22_NamesUniqueWhenInputIs ==
    (PassDone /\ InputNamesOnce) => NamesInOneEntry

\* C22 witness: a Legacy pass completed over two lines with distinct names
\* and left an entry for each and the default entry
C22_Witness ==
    /\ LegacyDone
    /\ InputNamesOnce
    /\ Len(Lines) = 2
    /\ cgpath.nkvp = 3
    /\ HasComma(cgpath.keys[2])

----------------------------------------------------------------------------
(* C23 *)

\* the list a call of pgnodemx_permute_list was given, and its tokens
ListGiven == last.key
TokensGiven == Tokens(ListGiven)

RECURSIVE Factorial(_)
Factorial(n) == IF n = 0 THEN 1 ELSE n * Factorial(n - 1)

\* the list holds between 1 and MaxTokens tokens, pairwise distinct, none
\* empty and all in lower case (as controller names are)
DistinctTokens ==
    /\ ListGiven # <<>>
    /\ Len(TokensGiven) <= MaxTokens
    /\ \A i \in 1..Len(TokensGiven) :
          /\ TokensGiven[i] # <<>>
          /\ LowerStr(TokensGiven[i]) = TokensGiven[i]
          /\ \A j \in 1..Len(TokensGiven) : i # j => TokensGiven[i] # TokensGiven[j]

----------------------------------------------------------------------------
(* C24 *)

\* set_containerized has just returned in Hybrid mode
HybridDetected ==
    /\ last.op = "set_containerized"
    /\ last.err = "none"
    /\ cgmode = CGROUP_HYBRID

\* C24 as stated: whenever the mode is Hybrid, set_containerized ends with
\* containerized = false, also when the setting was configured as true.
C24_HybridAlwaysFalse ==
    HybridDetected => containerized = FALSE

\* C24: whenever the mode is Hybrid and the setting was not given in the
\* configuration file, set_containerized ends with containerized = false.
C24_HybridFalseUnlessConfigured ==
    (HybridDetected /\ source # PGC_S_FILE) => containerized = FALSE

\* C24 witness: set_containerized has returned in Hybrid mode on a host
\* whose memory directory is missing, the setting not configured, and the
\* flag is false
C24_Witness ==
    /\ HybridDetected
    /\ source # PGC_S_FILE
    /\ procfile.ok
    /\ P(<<"memory">>, <<"foo">>) \notin dirs
    /\ containerized = FALSE

----------------------------------------------------------------------------
(* C25 *)

\* the remainder of the line after its first '=' stands between double quotes
RemainderQuoted ==
    /\ Len(KeqvRest) >= 2
    /\ KeqvRest[1] = quote
    /\ KeqvRest[Len(KeqvRest)] = quote

\* the errors parse_keqv_line raises
FormatErrors == { "expected 2 tokens, found 0", "expected 2 tokens, found 3" }

\* C25: parse_keqv_line raises its format error for a line without '=' and
\* for a line whose remainder after the first '=' is not enclosed in double
\* quotes.
C25_UnquotedRejected ==
    (last.op = "parse_keqv_line" /\ (strchr(KeqvLine, "=") = 0 \/ ~RemainderQuoted)) =>
        last.err \in FormatErrors

----------------------------------------------------------------------------
(* C26 *)

\* the calls that read the table
TableReaders == {"get_cgpath_value", "get_fq_cgroup_path", "cgmembers"}

\* C26: a call of get_cgpath_value, get_fq_cgroup_path or cgmembers, whether
\* it succeeds or fails, leaves the keys, the paths, their order and the
\* length of the table as they were.
C26_ReadersLeaveTable ==
    [][ last'.op \in TableReaders => cgpath' = cgpath ]_vars

\* C26 witness: get_fq_cgroup_path has resolved a file name through a
\* table that holds a comma-joined key among its entries
C26_Witness ==
    /\ last.op = "get_fq_cgroup_path"
    /\ last.err = "none"
    /\ cgpath.nkvp >= 3
    /\ \E i \in 1..cgpath.nkvp : cgpath.keys[i] # GARBAGE /\ HasComma(cgpath.keys[i])

----------------------------------------------------------------------------
(* C27 *)

\* C27: on a file of one line, get_double_from_file returns the largest
\* double exactly when the token is "max" in any letter case.
C27_DoubleSentinel ==
    (last.op = "get_double_from_file" /\ procfile.ok /\ Len(Lines) = 1) =>
        ([k \in 1..Len(Token) |-> tolower(Token[k])] = <<"m", "a", "x">>
            <=> (last.err = "none" /\ last.ret = DBL_MAX))

----------------------------------------------------------------------------
(* C28 *)

\* a step after which the mode, the flag and the table are what the three
\* passes give when the flag is detected in the mode just detected and the
\* table is built from that mode and that flag
InitializedInOrder ==
    LET m == pgnodemx_cgmode_outcome(last'.probe.root, last'.probe.unified)
        c == pgnodemx_containerized_outcome(cgmode', containerized)
    IN  /\ m.err = "none" /\ cgmode' = m.mode
        /\ c.err = "none" /\ containerized' = c.value
        /\ \E dies \in BOOLEAN :
              LET t == pgnodemx_cgpath_outcome(cgmode', containerized', dies)
              IN  t.err = "none" /\ cgpath' = t.table

\* C28: a call of _PG_init that completes the initialization has detected the
\* mode, then the container in that mode, then resolved the paths from both;
\* a call after a completed initialization leaves the mode, the
\* containerized flag and the table as they were.
C28_OrderedAndOnce ==
    [][ last'.op = "_PG_init" =>
          /\ inited => UNCHANGED <<inited, cgmode, containerized, cgpath>>
          /\ (~inited /\ inited') => InitializedInOrder ]_vars

\* an initialization completed with a table of several entries, and
\* _PG_init was called again
C28_Witness ==
    /\ last.op = "_PG_init" /\ last.again /\ inited
    /\ cgpath.nkvp >= 2
    /\ containerized /\ source = PGC_S_DEFAULT

----------------------------------------------------------------------------
(* C29 *)

\* C29: parse_quoted_string returns for every string, one with a backslash
\* included, and what it returns is no longer than the string it was given.
C29_QuotedStringTerminates ==
    last.op = "parse_quoted_string" =>
        /\ last.err = "none"
        /\ Len(last.ret) <= Len(last.key)

----------------------------------------------------------------------------
(* C30 *)

\* C30: get_list_permutations returns for every list of 0 to 10 tokens, the
\* empty string among them, and reports as many rows as the factorial it
\* precalculated.
C30_PermutationsTerminate ==
    (last.op = "pgnodemx_permute_list"
        /\ (ListGiven = <<>> \/ Len(TokensGiven) <= MAX_PERM_ARRLEN)
        /\ \A i \in 1..Len(TokensGiven) : ListGiven = <<>> \/ TokensGiven[i] # <<>>) =>
        /\ last.err = "none"
        /\ last.ret.nrow = last.ret.fact

----------------------------------------------------------------------------
Next == set_cgmode \/ set_containerized \/ set_cgpath \/ get_cgpath_value

Spec == Init /\ [][Next]_vars

\* _PG_init of src/pgnodemx.c detecting the mode with its own set_cgmode
NextMonolith == pgnodemx_set_cgmode
SpecMonolith == Init /\ [][NextMonolith]_vars

\* the library being loaded: nothing but _PG_init runs
NextInit == _PG_init
SpecInit == Init /\ [][NextInit]_vars

\* the table between its passes and its readers, the containerized setting
\* taken from the configuration file
InitLookup == Init /\ cgroup_enabled /\ source = PGC_S_FILE
NextLookup ==
    \/ set_cgmode
    \/ set_cgpath
    \/ get_cgpath_value
    \/ get_fq_cgroup_path
    \/ cgmembers_lookup
SpecLookup == InitLookup /\ [][NextLookup]_vars

\* the parsing functions, each called once on a text
InitParse ==
    /\ cgroup_enabled = TRUE
    /\ containerized = FALSE
    /\ source = PGC_S_DEFAULT
    /\ cgmode = "NULL"
    /\ cgpath = NoTable
    /\ dirs = {}
    /\ ctlfile = NoCtlFile
    /\ inited = FALSE
    /\ \/ /\ procfile = Unreadable
          /\ last \in { PureCall("cgmembers", f) : f \in ProcsFiles }
       \/ /\ procfile \in Int64Files
          /\ last \in { PureCall(fn, PROC_CGROUP_FILE) :
                          fn \in {"get_int64_from_file", "getInt64FromFile"} }
       \/ /\ procfile \in DoubleFiles
          /\ last = PureCall("get_double_from_file", PROC_CGROUP_FILE)
       \/ /\ procfile \in TextFiles
          /\ last = PureCall("read_nlsv", PROC_CGROUP_FILE)
       \/ /\ procfile = Unreadable
          /\ last \in { PureCall("parse_nested_keyed_line", l) : l \in NestedKeyedLines }
                       \cup { PureCall("parse_keqv_line", l) : l \in KeqvLines }
                       \cup { PureCall("read_vfs", f) : f \in Streams }
                       \cup { PureCall("pgnodemx_permute_list", l) : l \in PermuteLists }
                       \cup { PureCall("parse_quoted_string", v) : v \in QuotedStrings }
NextParse ==
    \/ cgmembers
    \/ get_int64_from_file
    \/ getInt64FromFile
    \/ call_read_nlsv
    \/ parse_nested_keyed_line
    \/ parse_keqv_line
    \/ call_read_vfs
    \/ pgnodemx_permute_list
    \/ get_double_from_file
    \/ call_parse_quoted_string
SpecParse == InitParse /\ [][NextParse]_vars
====
